---- MODULE Spec2Model ----
(***************************************************************************)
(* A model of the docsanitizer detection / anonymization pipeline:         *)
(*   - mapper.py      Mapping (placeholder table, normalization)           *)
(*   - decoder.py     decode (placeholder scan and substitution)           *)
(*   - encoder.py     encode (preprocess, detect, filter, rewrite)         *)
(*   - detectors/     detect_all, _remove_overlaps, HybridDetector.detect  *)
(* Text is a sequence of one-character strings; a Python dict is a         *)
(* function (or, where insertion order matters, a sequence of records).    *)
(***************************************************************************)
EXTENDS Integers, Sequences, FiniteSets, TLC

VARIABLES
    mapping,    \* the Mapping object of the session (entries, v2p, counters)
    calls,      \* history of get_or_create_placeholder calls: value, category, key, ret
    pc,         \* position of the session: idle / loop / encoded / decoded / raised ...
    cfg,        \* arguments and environment of the current encode call
    text,       \* encode's local `text` (after _preprocess)
    matches,    \* encode's local `matches` still to be replaced (descending start)
    result,     \* encode's local `result`
    done,       \* matches already replaced by the running encode (in loop order)
    decoded,    \* what decode returned for `result` (or None)
    prev,       \* what the previous encode call returned (or None)
    strategy_obj, \* encode's local `strategy_obj` (or None)
    cands,      \* Conflict Resolver: the input list under construction
    kept,       \* Conflict Resolver: what _remove_overlaps returned (or None)
    file,       \* the persisted mapping file: the JSON value it holds (or None)
    chunks,     \* _process_in_chunks: the local `chunks`, (start, end) pairs
    all_entities, \* _process_in_chunks: what it returned (or None)
    _detector,  \* hybrid.py: the module global _detector (None or a reference)
    detectors,  \* the HybridDetector objects created so far; a reference is an index
    threads     \* the threads inside detect_hybrid: position and local reference

vars == <<mapping, calls, pc, cfg, text, matches, result, done, decoded, prev, strategy_obj, cands, kept, file, chunks, all_entities, _detector, detectors, threads>>

\* Python's None; an optional value is None or Some(x)
None == [none |-> TRUE]
Some(x) == [val |-> x]

(***************************************************************************)
(* Characters and strings                                                  *)
(***************************************************************************)
Chars(s) == [i \in 1..Len(s) |-> SubSeq(s, i, i)]

LowerCase == Chars("abcdefghijklmnopqrstuvwxyz")
UpperCase == Chars("ABCDEFGHIJKLMNOPQRSTUVWXYZ")
Digits    == Chars("0123456789")
\* the ASCII characters the model uses, in code-point order (str comparison, list.sort of str)
AsciiOrder == Chars(" +,-./0123456789:@ABCDEFGHIJKLMNOPQRSTUVWXYZ_abcdefghijklmnopqrstuvwxyz|")

Range(s) == {s[i] : i \in DOMAIN s}

IsLower(c) == c \in Range(LowerCase)
IsUpper(c) == c \in Range(UpperCase)
IsDigit(c) == c \in Range(Digits)
IsLetter(c) == IsLower(c) \/ IsUpper(c)
IsSpace(c) == c \in {" ", "\n", "\t"}
\* regex \w
IsWord(c) == IsLetter(c) \/ IsDigit(c) \/ c = "_"

Ord(c) == IF c \in Range(AsciiOrder) THEN CHOOSE i \in DOMAIN AsciiOrder : AsciiOrder[i] = c ELSE 0

\* str.upper() on one character
UpperChar(c) == IF IsLower(c) THEN UpperCase[CHOOSE i \in DOMAIN LowerCase : LowerCase[i] = c] ELSE c
\* str.upper()
Upper(s) == [i \in DOMAIN s |-> UpperChar(s[i])]

\* s[a:b] of Python, 0-based half-open, clipped like Python slices
Slice(s, a, b) ==
    LET lo == IF a < 0 THEN 0 ELSE IF a > Len(s) THEN Len(s) ELSE a
        hi == IF b < 0 THEN 0 ELSE IF b > Len(s) THEN Len(s) ELSE b
    IN IF hi <= lo THEN <<>> ELSE SubSeq(s, lo + 1, hi)

\* s.startswith(p) at 0-based offset i
StartsWithAt(s, i, p) == i + Len(p) <= Len(s) /\ SubSeq(s, i + 1, i + Len(p)) = p

\* regex \b at 0-based offset i of s
WordBoundary(s, i) == (i > 0 /\ IsWord(s[i])) # (i < Len(s) /\ IsWord(s[i + 1]))

\* str < str (lexicographic by code point)
RECURSIVE LexLess(_, _)
LexLess(a, b) ==
    IF b = <<>> THEN FALSE
    ELSE IF a = <<>> THEN TRUE
    ELSE IF Ord(Head(a)) < Ord(Head(b)) THEN TRUE
    ELSE IF Ord(Head(a)) > Ord(Head(b)) THEN FALSE
    ELSE LexLess(Tail(a), Tail(b))

\* insert x into the sorted list l, after the elements equal to it (stable)
RECURSIVE InsertSorted(_, _)
InsertSorted(l, x) ==
    IF l = <<>> THEN <<x>>
    ELSE IF LexLess(x, Head(l)) THEN <<x>> \o l
    ELSE <<Head(l)>> \o InsertSorted(Tail(l), x)

\* list.sort() of a list of str
RECURSIVE SortStrings(_)
SortStrings(l) ==
    IF l = <<>> THEN <<>> ELSE InsertSorted(SortStrings(SubSeq(l, 1, Len(l) - 1)), l[Len(l)])

\* sep.join(parts)
RECURSIVE Join(_, _)
Join(sep, parts) ==
    IF parts = <<>> THEN <<>>
    ELSE IF Len(parts) = 1 THEN parts[1]
    ELSE parts[1] \o sep \o Join(sep, Tail(parts))

\* str.split(): split on runs of whitespace, no empty parts
RECURSIVE SplitFrom(_, _, _)
SplitFrom(s, i, cur) ==
    IF i > Len(s) THEN (IF cur = <<>> THEN <<>> ELSE <<cur>>)
    ELSE IF IsSpace(s[i]) THEN (IF cur = <<>> THEN <<>> ELSE <<cur>>) \o SplitFrom(s, i + 1, <<>>)
    ELSE SplitFrom(s, i + 1, Append(cur, s[i]))

Split(s) == SplitFrom(s, 1, <<>>)

\* str.strip()
RECURSIVE LStrip(_)
LStrip(s) == IF s # <<>> /\ IsSpace(Head(s)) THEN LStrip(Tail(s)) ELSE s
RECURSIVE RStrip(_)
RStrip(s) == IF s # <<>> /\ IsSpace(s[Len(s)]) THEN RStrip(SubSeq(s, 1, Len(s) - 1)) ELSE s
Strip(s) == RStrip(LStrip(s))

\* decimal digits of n >= 0
RECURSIVE DigitsOf(_)
DigitsOf(n) == IF n < 10 THEN <<Digits[n + 1]>> ELSE DigitsOf(n \div 10) \o <<Digits[(n % 10) + 1]>>

\* f"{n:03d}"
Format03d(n) ==
    LET d == DigitsOf(n)
    IN IF Len(d) >= 3 THEN d ELSE [i \in 1..(3 - Len(d)) |-> "0"] \o d

(***************************************************************************)
(* mapper.py: Mapping                                                      *)
(***************************************************************************)
\* dict[k] = v on a dict kept as a function
DictPut(f, k, v) == [x \in (DOMAIN f) \cup {k} |-> IF x = k THEN v ELSE f[x]]
\* dict.get(k, default)
DictGet(f, k, default) == IF k \in DOMAIN f THEN f[k] ELSE default
EmptyDict == [x \in {} |-> 0]

\* Mapping.__init__ (version and created are not modelled: no modelled code reads them)
EmptyMapping == [entries |-> <<>>, v2p |-> EmptyDict, counters |-> EmptyDict]

\* index of the entry stored under `placeholder` in entries (0: no such key)
EntryIndex(entries, placeholder) ==
    IF \E i \in DOMAIN entries : entries[i].placeholder = placeholder
    THEN CHOOSE i \in DOMAIN entries : entries[i].placeholder = placeholder
    ELSE 0

\* self.entries[placeholder] = entry: a dict keeps the position of a key it already holds
EntriesPut(entries, entry) ==
    LET i == EntryIndex(entries, entry.placeholder)
    IN IF i = 0 THEN Append(entries, entry) ELSE [entries EXCEPT ![i] = entry]

particles == {Chars("EL"), Chars("AL"), Chars("VAN"), Chars("DE"), Chars("DER"),
              Chars("DEN"), Chars("TEN"), Chars("TER"), Chars("LA"), Chars("LE")}

\* a name normalization without core_parts.sort()
_normalize_name_unsorted(name) ==
    LET parts == Split(Upper(name))
        core_parts == SelectSeq(parts, LAMBDA p : p \notin particles)
    IN Join(<<"|">>, core_parts)

_normalize_name(name) ==
    LET parts == Split(Upper(name))
        core_parts == SelectSeq(parts, LAMBDA p : p \notin particles)
    IN Join(<<"|">>, SortStrings(core_parts))

\* a phone normalization that drops the international prefix 00 without writing +
_normalize_phone_drop_prefix(phone) ==
    LET digits == SelectSeq(phone, LAMBDA c : IsDigit(c) \/ c = "+")
    IN IF StartsWithAt(digits, 0, <<"0", "0">>) THEN Slice(digits, 2, Len(digits))
       ELSE IF StartsWithAt(digits, 0, <<"0">>) /\ Len(digits) = 10
            THEN <<"+", "3", "2">> \o Slice(digits, 1, Len(digits))
       ELSE digits

_normalize_phone(phone) ==
    LET digits == SelectSeq(phone, LAMBDA c : IsDigit(c) \/ c = "+")
    IN IF StartsWithAt(digits, 0, <<"0", "0">>) THEN <<"+">> \o Slice(digits, 2, Len(digits))
       ELSE IF StartsWithAt(digits, 0, <<"0">>) /\ Len(digits) = 10
            THEN <<"+", "3", "2">> \o Slice(digits, 1, Len(digits))
       ELSE digits

_normalize_iban(iban) == SelectSeq(Upper(iban), LAMBDA c : ~IsSpace(c))

_normalize(value, category) ==
    IF category = "PERSON" THEN _normalize_name(value)
    ELSE IF category = "PHONE" THEN _normalize_phone(value)
    ELSE IF category = "IBAN" THEN _normalize_iban(value)
    ELSE Strip(Upper(value))

\* f"{category}_{n:03d}"
FormatPlaceholder(category, n) == Chars(category) \o <<"_">> \o Format03d(n)

\* a per-entry numbering by the size of the whole table instead of the category's counter
NextCounterByTableSize(m, category) == Len(m.entries) + 1
\* self._counters.get(category, 0) + 1
NextCounter(m, category) == DictGet(m.counters, category, 0) + 1

\* a get_or_create_placeholder that returns the placeholder of a known key without
\* recording the occurrence
get_or_create_placeholder_uncounted(m, value, category) ==
    LET normalized == _normalize(value, category)
    IN IF normalized \in DOMAIN m.v2p
       THEN [m |-> m, ret |-> m.v2p[normalized]]
       ELSE LET n == NextCounter(m, category)
                placeholder == FormatPlaceholder(category, n)
                entry == [placeholder |-> placeholder, canonical |-> value,
                          variations |-> {value}, occurrences |-> 1]
            IN [m |-> [entries |-> EntriesPut(m.entries, entry),
                       v2p |-> DictPut(m.v2p, normalized, placeholder),
                       counters |-> DictPut(m.counters, category, n)],
                ret |-> placeholder]
\* a call that makes the spelling it was called with the canonical value of the entry
get_or_create_placeholder_last_form(m, value, category) ==
    LET normalized == _normalize(value, category)
    IN IF normalized \in DOMAIN m.v2p
       THEN LET placeholder == m.v2p[normalized]
                i == EntryIndex(m.entries, placeholder)
            IN [m |-> [m EXCEPT !.entries[i].variations = @ \cup {value},
                                !.entries[i].occurrences = @ + 1,
                                !.entries[i].canonical = value],
                ret |-> placeholder]
       ELSE LET n == NextCounter(m, category)
                placeholder == FormatPlaceholder(category, n)
                entry == [placeholder |-> placeholder, canonical |-> value,
                          variations |-> {value}, occurrences |-> 1]
            IN [m |-> [entries |-> EntriesPut(m.entries, entry),
                       v2p |-> DictPut(m.v2p, normalized, placeholder),
                       counters |-> DictPut(m.counters, category, n)],
                ret |-> placeholder]
\* Mapping.get_or_create_placeholder: the Mapping after the call (m) and the value returned (ret)
get_or_create_placeholder(m, value, category) ==
    LET normalized == _normalize(value, category)
    IN IF normalized \in DOMAIN m.v2p
       THEN LET placeholder == m.v2p[normalized]
                i == EntryIndex(m.entries, placeholder)
            IN [m |-> [m EXCEPT !.entries[i].variations = @ \cup {value},
                                !.entries[i].occurrences = @ + 1],
                ret |-> placeholder]
       ELSE LET n == NextCounter(m, category)
                placeholder == FormatPlaceholder(category, n)
                entry == [placeholder |-> placeholder, canonical |-> value,
                          variations |-> {value}, occurrences |-> 1]
            IN [m |-> [entries |-> EntriesPut(m.entries, entry),
                       v2p |-> DictPut(m.v2p, normalized, placeholder),
                       counters |-> DictPut(m.counters, category, n)],
                ret |-> placeholder]

\* Mapping.get_original
get_original(m, placeholder) ==
    LET i == EntryIndex(m.entries, placeholder)
    IN IF i = 0 THEN None ELSE Some(m.entries[i].canonical)

(***************************************************************************)
(* detectors/patterns.py: the pattern detectors and detect_all             *)
(* The regular expressions are scaled down to patterns of one shape: a     *)
(* literal followed by dmin..dmax digits (greedy), with or without \b at   *)
(* both ends. Each detector keeps the structure of its source: a loop over *)
(* its pattern list, re.finditer, the seen_positions filter, and its own   *)
(* category and confidence.                                                *)
(***************************************************************************)
Pat(lit, dmin, dmax, wb) == [lit |-> Chars(lit), dmin |-> dmin, dmax |-> dmax, wb |-> wb]

\* the number of digits at offset i, at most k
RECURSIVE DigitRun(_, _, _)
DigitRun(s, i, k) == IF k > 0 /\ i < Len(s) /\ IsDigit(s[i + 1]) THEN 1 + DigitRun(s, i + 1, k - 1) ELSE 0

\* re.match of one pattern at offset i: the end offset, or -1
PatternEndAt(s, i, pat) ==
    IF ~StartsWithAt(s, i, pat.lit) \/ (pat.wb /\ ~WordBoundary(s, i)) THEN -1
    ELSE LET k == DigitRun(s, i + Len(pat.lit), pat.dmax)
             e == i + Len(pat.lit) + k
         IN IF k >= pat.dmin /\ (pat.wb => WordBoundary(s, e)) THEN e ELSE -1

\* re.finditer(pattern, text): the spans <<start, end>> of the non-overlapping matches, left to right
RECURSIVE FindIterFrom(_, _, _)
FindIterFrom(s, i, pat) ==
    IF i >= Len(s) THEN <<>>
    ELSE LET e == PatternEndAt(s, i, pat)
         IN IF e > i THEN <<(<<i, e>>)>> \o FindIterFrom(s, e, pat) ELSE FindIterFrom(s, i + 1, pat)

finditer(pat, s) == FindIterFrom(s, 0, pat)

NewMatch(s, span, category, confidence) ==
    [text |-> Slice(s, span[1], span[2]), start |-> span[1], end |-> span[2],
     category |-> category, confidence |-> confidence]

\* for m in re.finditer(pattern, text): if pos not in seen_positions: ... matches.append(Match(...))
RECURSIVE AppendUnseen(_, _, _, _, _)
AppendUnseen(found, spans, s, category, confidence) ==
    IF spans = <<>> THEN found
    ELSE LET seen == \E j \in DOMAIN found : <<found[j].start, found[j].end>> = Head(spans)
         IN AppendUnseen(IF seen THEN found ELSE Append(found, NewMatch(s, Head(spans), category, confidence)),
                         Tail(spans), s, category, confidence)

\* for pattern in PATTERNS: for m in re.finditer(pattern, text): ...
RECURSIVE DetectWith(_, _, _, _, _)
DetectWith(patterns, found, s, category, confidence) ==
    IF patterns = <<>> THEN found
    ELSE DetectWith(Tail(patterns), AppendUnseen(found, finditer(Head(patterns), s), s, category, confidence),
                    s, category, confidence)

\* PHONE_PATTERNS: a national mobile format and the generic international one
PHONE_PATTERNS == <<Pat("+32", 2, 2, FALSE), Pat("+", 3, 5, FALSE)>>
EMAIL_PATTERN == Pat("a@b.be", 0, 0, FALSE)
KNOWN_PLACES == <<Pat("Gent", 0, 0, TRUE)>>
NAME_PATTERNS == <<Pat("DE BO Wim", 0, 0, TRUE), Pat("De Bo Wim", 0, 0, TRUE), Pat("EL Bo", 0, 0, TRUE),
                   Pat("EL\nBo", 0, 0, TRUE), Pat("Bo Wim", 0, 0, TRUE), Pat("Wim An", 0, 0, TRUE)>>

detect_phones(s) == DetectWith(PHONE_PATTERNS, <<>>, s, "PHONE", 95)
detect_emails(s) == DetectWith(<<EMAIL_PATTERN>>, <<>>, s, "EMAIL", 99)
\* Method 1 (known places); the context-based Method 2 is not modelled
detect_places(s) == DetectWith(KNOWN_PLACES, <<>>, s, "PLACE", 95)
\* skips names that contain a newline or are shorter than 5 characters
detect_names(s) ==
    SelectSeq(DetectWith(NAME_PATTERNS, <<>>, s, "PERSON", 80),
              LAMBDA m : "\n" \notin Range(m.text) /\ Len(m.text) >= 5)

(***************************************************************************)
(* decoder.py: decode                                                      *)
(***************************************************************************)
\* the alternation of PLACEHOLDER_PATTERN, in its order
PLACEHOLDER_CATEGORIES == <<"PERSON", "PHONE", "EMAIL", "ADDRESS", "IBAN", "DOB", "ID", "ORG",
                            "PLACE", "LOCATION", "STREET", "ROAD", "VEHICLE">>

\* k digits at offset i
DigitsAt(s, i, k) == i + k <= Len(s) /\ \A j \in 1..k : IsDigit(s[i + j])

\* _(\d{3,4})\b at offset i: the end offset of the match, greedy (4 digits before 3), or -1
MatchSuffixAt(s, i) ==
    IF ~StartsWithAt(s, i, <<"_">>) THEN -1
    ELSE IF DigitsAt(s, i + 1, 4) /\ WordBoundary(s, i + 5) THEN i + 5
    ELSE IF DigitsAt(s, i + 1, 3) /\ WordBoundary(s, i + 4) THEN i + 4
    ELSE -1

\* PLACEHOLDER_PATTERN at offset i: the end offset of the match, or -1
\* (the alternatives are tried in order, k is the next to try)
RECURSIVE MatchAlternativeAt(_, _, _)
MatchAlternativeAt(s, i, k) ==
    IF k > Len(PLACEHOLDER_CATEGORIES) THEN -1
    ELSE LET c == Chars(PLACEHOLDER_CATEGORIES[k])
             e == IF StartsWithAt(s, i, c) THEN MatchSuffixAt(s, i + Len(c)) ELSE -1
         IN IF e >= 0 THEN e ELSE MatchAlternativeAt(s, i, k + 1)

MatchPlaceholderAt(s, i) == IF WordBoundary(s, i) THEN MatchAlternativeAt(s, i, 1) ELSE -1

\* a replacement function that hands re.sub whatever get_original returned
replace_placeholder_unguarded(m, placeholder) == get_original(m, placeholder)
\* decode.replace_placeholder: `original if original else placeholder`
replace_placeholder(m, placeholder) ==
    LET original == get_original(m, placeholder)
    IN IF original # None /\ original.val # <<>> THEN original ELSE Some(placeholder)

\* re.sub(PLACEHOLDER_PATTERN, replace_placeholder, text) from offset i on:
\* [ok |-> TRUE, text |-> ...], or [ok |-> FALSE] when the replacement function
\* returned something that is not a str (re.sub raises TypeError)
RECURSIVE SubPlaceholdersFrom(_, _, _)
SubPlaceholdersFrom(s, i, m) ==
    IF i >= Len(s) THEN [ok |-> TRUE, text |-> <<>>]
    ELSE LET e == MatchPlaceholderAt(s, i)
             repl == IF e >= 0 THEN replace_placeholder(m, Slice(s, i, e)) ELSE Some(<<s[i + 1]>>)
             rest == SubPlaceholdersFrom(s, IF e >= 0 THEN e ELSE i + 1, m)
         IN IF repl = None \/ ~rest.ok THEN [ok |-> FALSE]
            ELSE [ok |-> TRUE, text |-> repl.val \o rest.text]

\* decode(text, mapping)
decode(s, m) == SubPlaceholdersFrom(s, 0, m)

(***************************************************************************)
(* detectors/patterns.py: Match, _remove_overlaps                          *)
(* A Match is [text, start, end, category, confidence]; start and end are  *)
(* 0-based, half-open; confidence is in hundredths (0.95 is 95).           *)
(***************************************************************************)
MatchLen(m) == m.end - m.start

\* a sort key that looks at the length only
PriorityBeforeByLength(a, b) == MatchLen(a) > MatchLen(b)
\* the sort key of _remove_overlaps: (-confidence, -(end - start))
PriorityBefore(a, b) ==
    \/ a.confidence > b.confidence
    \/ a.confidence = b.confidence /\ MatchLen(a) > MatchLen(b)

\* list.sort is stable: x goes after every element that is not strictly behind it
RECURSIVE InsertByPriority(_, _)
InsertByPriority(l, x) ==
    IF l = <<>> THEN <<x>>
    ELSE IF PriorityBefore(x, Head(l)) THEN <<x>> \o l
    ELSE <<Head(l)>> \o InsertByPriority(Tail(l), x)

\* matches.sort(key=lambda m: (-m.confidence, -(m.end - m.start)))
RECURSIVE SortByPriority(_)
SortByPriority(l) ==
    IF l = <<>> THEN <<>> ELSE InsertByPriority(SortByPriority(SubSeq(l, 1, Len(l) - 1)), l[Len(l)])

RECURSIVE InsertByStart(_, _)
InsertByStart(l, x) ==
    IF l = <<>> THEN <<x>>
    ELSE IF x.start < Head(l).start THEN <<x>> \o l
    ELSE <<Head(l)>> \o InsertByStart(Tail(l), x)

\* matches.sort(key=lambda m: m.start)
RECURSIVE SortByStart(_)
SortByStart(l) ==
    IF l = <<>> THEN <<>> ELSE InsertByStart(SortByStart(SubSeq(l, 1, Len(l) - 1)), l[Len(l)])

\* a sort that leaves the matches in document order
SortByStartAscending(l) == SortByStart(l)

RECURSIVE InsertByStartDesc(_, _)
InsertByStartDesc(l, x) ==
    IF l = <<>> THEN <<x>>
    ELSE IF x.start > Head(l).start THEN <<x>> \o l
    ELSE <<Head(l)>> \o InsertByStartDesc(Tail(l), x)

\* matches.sort(key=lambda m: m.start, reverse=True): stable as well
RECURSIVE SortByStartDesc(_)
SortByStartDesc(l) ==
    IF l = <<>> THEN <<>>
    ELSE InsertByStartDesc(SortByStartDesc(SubSeq(l, 1, Len(l) - 1)), l[Len(l)])

\* an overlap test that compares with the start of the kept range on both sides
RangesOverlapStartOnly(m, start, end) == ~(m.end <= start \/ m.start >= start)
\* not (match.end <= start or match.start >= end)
RangesOverlap(m, start, end) == ~(m.end <= start \/ m.start >= end)

\* the loop of _remove_overlaps over the sorted list
RECURSIVE KeepNonOverlapping(_, _)
KeepNonOverlapping(sorted, keptSoFar) ==
    IF sorted = <<>> THEN keptSoFar
    ELSE LET match == Head(sorted)
             overlaps == \E i \in DOMAIN keptSoFar :
                             RangesOverlap(match, keptSoFar[i].start, keptSoFar[i].end)
         IN KeepNonOverlapping(Tail(sorted), IF overlaps THEN keptSoFar ELSE Append(keptSoFar, match))

_remove_overlaps(ms) == IF ms = <<>> THEN <<>> ELSE KeepNonOverlapping(SortByPriority(ms), <<>>)

\* detect_all: every detector in order, _remove_overlaps, sort by start
detect_all(s) ==
    SortByStart(_remove_overlaps(detect_emails(s) \o detect_phones(s) \o detect_places(s) \o detect_names(s)))

(***************************************************************************)
(* detectors/hybrid.py: HybridDetector.detect                              *)
(* The spaCy model is an external function of the text: the model takes it *)
(* to be a fixed table of entities (literal, label), found left to right,  *)
(* never overlapping, as doc.ents is.                                      *)
(***************************************************************************)
LANGUAGE_MODELS == [nl |-> "nl_core_news_sm", en |-> "en_core_web_sm", de |-> "de_core_news_sm",
                    fr |-> "fr_core_news_sm", it |-> "it_core_news_sm", es |-> "es_core_news_sm"]

SPACY_LABEL_MAP == [PER |-> "PERSON", PERSON |-> "PERSON", LOC |-> "PLACE", GPE |-> "PLACE",
                    FAC |-> "PLACE", ORG |-> "ORG", MISC |-> "MISC", NORP |-> "MISC",
                    EVENT |-> "MISC", PRODUCT |-> "MISC", WORK_OF_ART |-> "MISC"]

\* what the language model knows: entity literals and their labels
SPACY_ENTS == <<[lit |-> Chars("DE BO Wim"), label |-> "PER"], [lit |-> Chars("De Bo Wim"), label |-> "PER"],
                [lit |-> Chars("De Gent"), label |-> "PER"],
                [lit |-> Chars("EL Bo"), label |-> "PER"], [lit |-> Chars("Bo Wim An"), label |-> "PER"],
                [lit |-> Chars("Gent"), label |-> "LOC"], [lit |-> Chars("b.be"), label |-> "ORG"],
                [lit |-> Chars("An"), label |-> "MISC"]>>

\* the first entity of the table that stands at offset i between word boundaries (0: none)
EntAt(s, i, table) ==
    LET fits(k) == StartsWithAt(s, i, table[k].lit) /\ WordBoundary(s, i)
                   /\ WordBoundary(s, i + Len(table[k].lit))
    IN IF \E k \in DOMAIN table : fits(k)
       THEN CHOOSE k \in DOMAIN table : fits(k) /\ \A j \in 1..(k - 1) : ~fits(j)
       ELSE 0

\* doc.ents of nlp(text): (text, start_char, end_char, label_)
RECURSIVE EntsFrom(_, _, _)
EntsFrom(s, i, table) ==
    IF i >= Len(s) THEN <<>>
    ELSE LET k == EntAt(s, i, table)
         IN IF k = 0 THEN EntsFrom(s, i + 1, table)
            ELSE <<[text |-> table[k].lit, start |-> i, end |-> i + Len(table[k].lit),
                    label |-> table[k].label]>> \o EntsFrom(s, i + Len(table[k].lit), table)

\* entities with the offsets they have inside the text handed to nlp
_extract_ner_entities_unshifted(s, offset) == EntsFrom(s, 0, SPACY_ENTS)
\* HybridDetector._extract_ner_entities(text, nlp, offset)
_extract_ner_entities(s, offset) ==
    LET ents == EntsFrom(s, 0, SPACY_ENTS)
    IN [i \in DOMAIN ents |-> [ents[i] EXCEPT !.start = @ + offset, !.end = @ + offset]]

\* a test that only finds a position that is already there
_overlaps_any_exact(start, end, positions) == <<start, end>> \in positions
\* HybridDetector._overlaps_any(pos, positions)
_overlaps_any(start, end, positions) ==
    \E p \in positions : ~(end <= p[1] \/ start >= p[2])

\* the loop of HybridDetector.detect over the entities (STEP 2)
RECURSIVE AddNerMatches(_, _, _, _)
AddNerMatches(ents, all_matches, seen_positions, categories_to_include) ==
    IF ents = <<>> THEN all_matches
    ELSE LET ent == Head(ents)
             category == IF ent.label \in DOMAIN SPACY_LABEL_MAP THEN SPACY_LABEL_MAP[ent.label] ELSE "None"
             skip == \/ category \notin categories_to_include
                     \/ _overlaps_any(ent.start, ent.end, seen_positions)
                     \/ Len(Strip(ent.text)) < 2
                     \/ "@" \in Range(ent.text)
                     \/ Upper(ent.text) = Chars("EMAIL")
         IN IF skip THEN AddNerMatches(Tail(ents), all_matches, seen_positions, categories_to_include)
            ELSE AddNerMatches(Tail(ents),
                               Append(all_matches, [text |-> ent.text, start |-> ent.start, end |-> ent.end,
                                                    category |-> category, confidence |-> 90]),
                               seen_positions \cup {<<ent.start, ent.end>>}, categories_to_include)

\* STEP 1 of HybridDetector.detect: the pattern detectors it runs, in its order
HybridPatternMatches(s) == detect_emails(s) \o detect_phones(s)

\* HybridDetector.detect from the entities nlp returned on: the merge and the final sort
HybridMerge(s, ner_matches, include_org) ==
    LET all_matches == HybridPatternMatches(s)
        seen_positions == {<<all_matches[i].start, all_matches[i].end>> : i \in DOMAIN all_matches}
        categories_to_include == {"PERSON", "PLACE"} \cup (IF include_org THEN {"ORG"} ELSE {})
    IN SortByStart(AddNerMatches(ner_matches, all_matches, seen_positions, categories_to_include))

\* HybridDetector.detect once the model is loaded (the text is below chunk_size)
HybridDetect(s, include_org) == HybridMerge(s, _extract_ner_entities(s, 0), include_org)

(***************************************************************************)
(* detectors/presidio_detector.py: PresidioDetector.detect                 *)
(* The analyzer is external: a fixed table of results (literal, entity     *)
(* type, score).                                                           *)
(***************************************************************************)
PRESIDIO_CATEGORY_MAP == [PERSON |-> "PERSON", LOCATION |-> "PLACE", PHONE_NUMBER |-> "PHONE",
                          EMAIL_ADDRESS |-> "EMAIL", URL |-> "URL", IP_ADDRESS |-> "IP",
                          CREDIT_CARD |-> "CREDIT_CARD", IBAN_CODE |-> "IBAN", DATE_TIME |-> "DATE",
                          ORGANIZATION |-> "ORG", NRP |-> "MISC"]

PRESIDIO_ENTS == <<[lit |-> Chars("De Bo Wim"), label |-> "PERSON"], [lit |-> Chars("DE BO Wim"), label |-> "PERSON"],
                   [lit |-> Chars("Gent"), label |-> "LOCATION"], [lit |-> Chars("b.be"), label |-> "URL"],
                   [lit |-> Chars("+32489"), label |-> "PHONE_NUMBER"], [lit |-> Chars("Wim"), label |-> "FIRST"]>>

\* PresidioDetector.detect once the analyzer is built
PresidioDetect(s) ==
    LET results == EntsFrom(s, 0, PRESIDIO_ENTS)
    IN SortByStart([i \in DOMAIN results |->
           [text |-> Slice(s, results[i].start, results[i].end),
            start |-> results[i].start, end |-> results[i].end,
            category |-> IF results[i].label \in DOMAIN PRESIDIO_CATEGORY_MAP
                         THEN PRESIDIO_CATEGORY_MAP[results[i].label] ELSE "MISC",
            confidence |-> 85]])

(***************************************************************************)
(* strategies.py                                                           *)
(***************************************************************************)
STRATEGIES == {"replace", "redact", "mask", "hash", "encrypt"}

\* n copies of the character c (c * n)
Repeat(c, n) == [i \in 1..n |-> c]

\* the last 0-based offset of the character c in s, or -1 (str.rfind)
RECURSIVE RFind(_, _, _)
RFind(s, c, i) == IF i = 0 THEN -1 ELSE IF s[i] = c THEN i - 1 ELSE RFind(s, c, i - 1)

\* RedactStrategy.anonymize with include_category = True
redact_anonymize(value, category) == <<"[">> \o Chars(category) \o <<"]">>

\* MaskStrategy defaults
mask_char == "*"
keep_start == 1
keep_end == 2

\* one word of MaskStrategy._mask_generic
MaskWord(word) ==
    IF Len(word) <= keep_start + keep_end THEN Repeat(mask_char, Len(word))
    ELSE Slice(word, 0, keep_start)
         \o Repeat(mask_char, Len(word) - keep_start - keep_end)
         \o (IF keep_end > 0 THEN Slice(word, Len(word) - keep_end, Len(word)) ELSE <<>>)

\* MaskStrategy._mask_generic
_mask_generic(value) ==
    LET words == Split(value)
    IN Join(<<" ">>, [i \in DOMAIN words |-> MaskWord(words[i])])

\* an e-mail masked like any other value
_mask_email_as_words(email) == _mask_generic(email)
\* MaskStrategy._mask_email
_mask_email(email) ==
    IF "@" \notin Range(email) THEN _mask_generic(email)
    ELSE LET at == RFind(email, "@", Len(email))
             local == Slice(email, 0, at)
             domain == Slice(email, at + 1, Len(email))
             dot == RFind(domain, ".", Len(domain))
             masked_local == IF local # <<>> THEN <<local[1]>> \o Repeat(mask_char, Len(local) - 1) ELSE <<>>
         IN IF dot >= 0
            THEN LET domain_name == Slice(domain, 0, dot)
                     tld == Slice(domain, dot + 1, Len(domain))
                     masked_domain == IF domain_name # <<>>
                                      THEN <<domain_name[1]>> \o Repeat(mask_char, Len(domain_name) - 1)
                                      ELSE <<>>
                 IN masked_local \o <<"@">> \o masked_domain \o <<".">> \o tld
            ELSE masked_local \o <<"@">> \o Repeat(mask_char, Len(domain))

\* the loop of MaskStrategy._mask_phone that lays the masked digits over the format
RECURSIVE OverlayDigits(_, _, _)
OverlayDigits(phone, masked, digit_idx) ==
    IF phone = <<>> THEN <<>>
    ELSE IF IsDigit(Head(phone)) /\ digit_idx < Len(masked)
         THEN <<masked[digit_idx + 1]>> \o OverlayDigits(Tail(phone), masked, digit_idx + 1)
         ELSE <<Head(phone)>> \o OverlayDigits(Tail(phone), masked, digit_idx)

\* MaskStrategy._mask_phone
_mask_phone(phone) ==
    LET digits_only == SelectSeq(phone, IsDigit)
    IN IF Len(digits_only) <= 4 THEN Repeat(mask_char, Len(phone))
       ELSE LET masked == Slice(digits_only, 0, 2) \o Repeat(mask_char, Len(digits_only) - 4)
                          \o Slice(digits_only, Len(digits_only) - 2, Len(digits_only))
            IN OverlayDigits(phone, masked, 0)

\* " ".join(masked[i:i+4] for i in range(0, len(masked), 4))
RECURSIVE GroupsOfFour(_)
GroupsOfFour(s) == IF Len(s) <= 4 THEN s ELSE Slice(s, 0, 4) \o <<" ">> \o GroupsOfFour(Slice(s, 4, Len(s)))

\* MaskStrategy._mask_iban
_mask_iban(iban) ==
    LET clean == SelectSeq(iban, LAMBDA c : c # " ")
    IN IF Len(clean) < 8 THEN Repeat(mask_char, Len(iban))
       ELSE LET masked == Slice(clean, 0, 4) \o Repeat(mask_char, Len(clean) - 8)
                          \o Slice(clean, Len(clean) - 4, Len(clean))
            IN IF " " \in Range(iban) THEN GroupsOfFour(masked) ELSE masked

\* MaskStrategy.anonymize
mask_anonymize(value, category) ==
    IF category = "EMAIL" THEN _mask_email(value)
    ELSE IF category = "PHONE" THEN _mask_phone(value)
    ELSE IF category = "IBAN" THEN _mask_iban(value)
    ELSE _mask_generic(value)

\* HashStrategy default
truncate == 16
HexDigits == Chars("0123456789abcdef")

\* hashlib.sha256(data).hexdigest(): an external function, modelled as a fixed
\* function of the bytes (a positional checksum spread over the 64 hex digits of SHA-256)
RECURSIVE Checksum(_, _)
Checksum(data, i) == IF i > Len(data) THEN 7 ELSE (i * (Ord(data[i]) + 3) + 31 * Checksum(data, i + 1)) % 65521
hexdigest(data) ==
    LET h == Checksum(data, 1)
    IN [k \in 1..64 |-> HexDigits[(((h \div k) + k * h) % 16) + 1]]

\* HashStrategy.anonymize with the default algorithm and an empty salt
hash_anonymize(value, category) ==
    LET salt == <<>>
        hash_hex == hexdigest(salt \o value \o Chars(category))
    IN IF truncate # 0 /\ truncate < Len(hash_hex) THEN Slice(hash_hex, 0, truncate) ELSE hash_hex

\* Fernet: the keys generate_key() can return and the IVs encrypt() can draw
Keys == {"K", "L"}
IVs == {"u", "v"}

\* Fernet(key).encrypt(value): a token that depends on the key, a fresh IV and the value
FernetEncrypt(key, iv, value) ==
    LET shift == IF key = "K" THEN 1 ELSE 2
        n == Len(AsciiOrder)
    IN <<"g", "A", iv>> \o [i \in DOMAIN value |-> AsciiOrder[((Ord(value[i]) + shift) % n) + 1]]

\* EncryptStrategy.anonymize with the key and the IV in use: the AnonymizedValue
encrypt_anonymize(key, iv, value, category) ==
    [original |-> value, anonymized |-> FernetEncrypt(key, iv, value), category |-> category,
     strategy |-> "encrypt", metadata |-> [key |-> key]]

\* get_strategy that hands out the EncryptStrategy for every name
get_strategy_encrypt(name) == [ok |-> TRUE, obj |-> [name |-> "encrypt", key |-> None]]
\* get_strategy(name): the strategy object (EncryptStrategy starts with _key = None), or ValueError
get_strategy(name) ==
    IF name \notin STRATEGIES THEN [ok |-> FALSE, err |-> "ValueError"]
    ELSE [ok |-> TRUE, obj |-> [name |-> name, key |-> None]]

(***************************************************************************)
(* encoder.py: _preprocess, _is_masked, _detect_with_backend               *)
(***************************************************************************)
\* the particles of _preprocess, in its order
preprocess_particles == <<"EL", "VAN", "DE", "DER", "DEN", "TEN", "TER", "LA", "LE">>

\* the end of the run [A-Za-z]+ that starts at 0-based offset i
RECURSIVE LetterRunEnd(_, _)
LetterRunEnd(s, i) == IF i < Len(s) /\ IsLetter(s[i + 1]) THEN LetterRunEnd(s, i + 1) ELSE i

\* re.sub(r'\b(particle)\n([A-Z][A-Za-z]+)', r'\1 \2', s), scanning from offset i
RECURSIVE SubParticleFrom(_, _, _)
SubParticleFrom(s, i, particle) ==
    IF i >= Len(s) THEN <<>>
    ELSE LET j == i + Len(particle)
             hit == /\ WordBoundary(s, i)
                    /\ StartsWithAt(s, i, particle \o <<"\n">>)
                    /\ j + 3 <= Len(s)
                    /\ IsUpper(s[j + 2])
                    /\ IsLetter(s[j + 3])
         IN IF hit
            THEN LET e == LetterRunEnd(s, j + 1)
                 IN particle \o <<" ">> \o Slice(s, j + 1, e) \o SubParticleFrom(s, e, particle)
            ELSE <<s[i + 1]>> \o SubParticleFrom(s, i + 1, particle)

RECURSIVE PreprocessWith(_, _)
PreprocessWith(s, ps) ==
    IF ps = <<>> THEN s
    ELSE PreprocessWith(SubParticleFrom(s, 0, Chars(Head(ps))), Tail(ps))

\* _preprocess(text)
_preprocess(s) == PreprocessWith(s, preprocess_particles)

\* sub in s
Contains(s, sub) == \E i \in 0..Len(s) : StartsWithAt(s, i, sub)

\* _is_masked(text)
_is_masked(s) ==
    Contains(s, Chars("XX")) \/ Contains(s, Chars("xx")) \/ Contains(s, Chars("***")) \/ Contains(s, Chars("XXX"))

\* detectors/__init__.py: _HYBRID_AVAILABLE and _SPACY_AVAILABLE record whether the
\* modules hybrid and ner could be imported; both import spaCy only inside their
\* methods, so the two flags are True whether or not spaCy is installed
is_hybrid_available(env) == TRUE
\* NERDetector.is_available: import spacy succeeds
is_ner_available(env) == env.spacy
\* PresidioDetector.is_available: import presidio_analyzer succeeds
is_presidio_available(env) == env.presidio

\* HybridDetector._get_model(language): _load_spacy, then spacy.load(model_name)
_get_model(language, env) ==
    IF ~env.spacy THEN [ok |-> FALSE, err |-> "ImportError"]
    ELSE LET model_name == IF language \in DOMAIN LANGUAGE_MODELS THEN LANGUAGE_MODELS[language]
                           ELSE "en_core_web_sm"
         IN IF model_name \in env.models THEN [ok |-> TRUE, model |-> model_name]
            ELSE [ok |-> FALSE, err |-> "OSError"]

\* detect_hybrid(text, language): the shared HybridDetector's detect
detect_hybrid(s, language, env) ==
    LET nlp == _get_model(language, env)
    IN IF nlp.ok THEN [ok |-> TRUE, matches |-> HybridDetect(s, FALSE)] ELSE nlp

\* PresidioDetector._get_analyzer(language): falls back to English once
_get_analyzer(language, env) ==
    LET model_name == IF language \in DOMAIN LANGUAGE_MODELS THEN LANGUAGE_MODELS[language]
                      ELSE "en_core_web_sm"
    IN IF ~env.presidio THEN [ok |-> FALSE, err |-> "ImportError"]
       ELSE IF model_name \in env.models THEN [ok |-> TRUE, model |-> model_name]
       ELSE IF language # "en" /\ "en_core_web_sm" \in env.models THEN [ok |-> TRUE, model |-> "en_core_web_sm"]
       ELSE [ok |-> FALSE, err |-> "OSError"]

\* detect_with_presidio(text, language)
detect_with_presidio(s, language, env) ==
    LET analyzer == _get_analyzer(language, env)
    IN IF analyzer.ok THEN [ok |-> TRUE, matches |-> PresidioDetect(s)] ELSE analyzer

\* detectors/ner.py: the language names NERDetector accepts besides the codes
LANGUAGE_ALIASES == [dutch |-> "nl", nederlands |-> "nl", english |-> "en", german |-> "de",
                     french |-> "fr", italian |-> "it", spanish |-> "es"]
ENTITY_CATEGORY_MAP == [PER |-> "PERSON", PERSON |-> "PERSON", LOC |-> "PLACE", GPE |-> "PLACE",
                        FAC |-> "PLACE", ORG |-> "ORG", ORGANIZATION |-> "ORG", DATE |-> "DATE",
                        TIME |-> "TIME", MISC |-> "MISC", PRODUCT |-> "MISC", EVENT |-> "MISC",
                        WORK_OF_ART |-> "MISC", LAW |-> "MISC"]
DEFAULT_CATEGORIES == {"PERSON", "PLACE", "ORG"}

\* NERDetector._normalize_language: the ISO code, or ValueError (the language arguments
\* of the model are in lower case without blanks, so lower().strip() leaves them)
_normalize_language(lang) ==
    IF lang \in DOMAIN LANGUAGE_ALIASES THEN [ok |-> TRUE, code |-> LANGUAGE_ALIASES[lang]]
    ELSE IF lang \in DOMAIN LANGUAGE_MODELS THEN [ok |-> TRUE, code |-> lang]
    ELSE [ok |-> FALSE, err |-> "ValueError"]

\* NERDetector.load_language
load_language(language, env) ==
    IF ~env.spacy THEN [ok |-> FALSE, err |-> "ImportError"]
    ELSE LET lang_code == _normalize_language(language)
         IN IF ~lang_code.ok THEN lang_code
            ELSE IF LANGUAGE_MODELS[lang_code.code] \in env.models
                 THEN [ok |-> TRUE, model |-> LANGUAGE_MODELS[lang_code.code]]
                 ELSE [ok |-> FALSE, err |-> "OSError"]

\* the loop of NERDetector.detect over doc.ents
RECURSIVE NerMatches(_, _, _, _)
NerMatches(ents, found, seen_positions, categories) ==
    IF ents = <<>> THEN found
    ELSE LET ent == Head(ents)
             category == IF ent.label \in DOMAIN ENTITY_CATEGORY_MAP THEN ENTITY_CATEGORY_MAP[ent.label]
                         ELSE "MISC"
             skip == \/ category \notin categories
                     \/ <<ent.start, ent.end>> \in seen_positions
                     \/ Len(Strip(ent.text)) < 2
                     \/ "\n" \in Range(ent.text)
         IN IF skip THEN NerMatches(Tail(ents), found, seen_positions, categories)
            ELSE NerMatches(Tail(ents),
                            Append(found, [text |-> ent.text, start |-> ent.start, end |-> ent.end,
                                           category |-> category, confidence |-> 90]),
                            seen_positions \cup {<<ent.start, ent.end>>}, categories)

\* detect_entities_ner(text, language): NERDetector.detect with the default categories
detect_entities_ner(s, language, env) ==
    LET lang_code == _normalize_language(language)
    IN IF ~lang_code.ok THEN lang_code
       ELSE LET nlp == load_language(lang_code.code, env)
            IN IF ~nlp.ok THEN nlp
               ELSE [ok |-> TRUE, matches |-> NerMatches(EntsFrom(s, 0, SPACY_ENTS), <<>>, {}, DEFAULT_CATEGORIES)]

\* the backend "auto" resolves to
AutoBackend(env) ==
    IF is_hybrid_available(env) THEN "hybrid"
    ELSE IF is_ner_available(env) THEN "spacy"
    ELSE "patterns"

\* a dispatch that runs the pattern detectors for every backend name
_detect_with_backend_patterns(s, backend0, language, env) == [ok |-> TRUE, matches |-> detect_all(s)]
\* _detect_with_backend(text, backend, language): the matches, or the exception raised
\* (the backend gliner is not among the configurations of the model)
_detect_with_backend(s, backend0, language, env) ==
    LET backend == IF backend0 = "auto" THEN AutoBackend(env) ELSE backend0
    IN IF backend = "hybrid"
       THEN (IF ~is_hybrid_available(env) THEN [ok |-> TRUE, matches |-> detect_all(s)]
             ELSE detect_hybrid(s, language, env))
       ELSE IF backend = "patterns" THEN [ok |-> TRUE, matches |-> detect_all(s)]
       ELSE IF backend = "spacy"
       THEN (IF ~is_ner_available(env) THEN [ok |-> FALSE, err |-> "ImportError"]
             ELSE detect_entities_ner(s, language, env))
       ELSE IF backend = "presidio"
       THEN (IF ~is_presidio_available(env) THEN [ok |-> FALSE, err |-> "ImportError"]
             ELSE detect_with_presidio(s, language, env))
       ELSE [ok |-> FALSE, err |-> "ValueError"]

(***************************************************************************)
(* The Mapping Store on its own: any sequence of get_or_create_placeholder *)
(* calls on one Mapping built from empty.                                  *)
(***************************************************************************)
MaxCalls == 3

RawValues == {Chars("Gent"), Chars("gent "), Chars("De Bo"), Chars("BO")}
CallCategories == {"PERSON", "PLACE", "ORG"}

\* what the session's variables hold while no encode call is running
Idle ==
    /\ pc = "idle"
    /\ cfg = None
    /\ text = <<>>
    /\ matches = <<>>
    /\ result = <<>>
    /\ done = <<>>
    /\ decoded = None
    /\ prev = None
    /\ strategy_obj = None
    /\ cands = <<>>
    /\ kept = None

InitMapping ==
    /\ mapping = EmptyMapping
    /\ calls = <<>>
    /\ Idle
    /\ file = None /\ chunks = <<>> /\ all_entities = None
    /\ _detector = None /\ detectors = <<>> /\ threads = <<>>

\* one call mapping.get_or_create_placeholder(value, category), logged
GetOrCreate(value, category) ==
    /\ Len(calls) < MaxCalls
    /\ LET r == get_or_create_placeholder(mapping, value, category)
       IN /\ mapping' = r.m
          /\ calls' = Append(calls, [value |-> value, category |-> category,
                                     key |-> _normalize(value, category), ret |-> r.ret])
    /\ UNCHANGED <<pc, cfg, text, matches, result, done, decoded, prev, strategy_obj, cands, kept, file, chunks, all_entities, _detector, detectors, threads>>

NextMapping == \E value \in RawValues, category \in CallCategories : GetOrCreate(value, category)

SpecMapping == InitMapping /\ [][NextMapping]_vars

\* placeholder.rsplit('_', 1)[0]: the category a placeholder carries
RECURSIVE LastUnderscore(_, _)
LastUnderscore(s, i) == IF i = 0 THEN 0 ELSE IF s[i] = "_" THEN i ELSE LastUnderscore(s, i - 1)
PlaceholderCategory(placeholder) ==
    LET i == LastUnderscore(placeholder, Len(placeholder))
    IN IF i = 0 THEN placeholder ELSE SubSeq(placeholder, 1, i - 1)
\* the entries of one category, in creation order
EntriesOf(m, category) == SelectSeq(m.entries, LAMBDA e : PlaceholderCategory(e.placeholder) = Chars(category))

(***************************************************************************)
(* mapper.py: to_dict, save and load                                       *)
(* The file holds the JSON value json.dump wrote: an object is a record    *)
(* whose optional keys are None when absent, "mappings" is the list of its *)
(* items in file order. version and created are not modelled.              *)
(***************************************************************************)
\* list(entry.variations): the elements of a set in some order
RECURSIVE SetToList(_)
SetToList(S) == IF S = {} THEN <<>> ELSE LET x == CHOOSE y \in S : TRUE IN <<x>> \o SetToList(S \ {x})

\* a to_dict that leaves "occurrences" out of every item
to_dict_without_occurrences(m) ==
    [statistics |-> Some(m.counters),
     mappings |-> Some([i \in DOMAIN m.entries |->
                          [placeholder |-> m.entries[i].placeholder,
                           canonical |-> Some(m.entries[i].canonical),
                           variations |-> Some(SetToList(m.entries[i].variations)),
                           occurrences |-> None]])]
\* Mapping.to_dict
to_dict(m) ==
    [statistics |-> Some(m.counters),
     mappings |-> Some([i \in DOMAIN m.entries |->
                          [placeholder |-> m.entries[i].placeholder,
                           canonical |-> Some(m.entries[i].canonical),
                           variations |-> Some(SetToList(m.entries[i].variations)),
                           occurrences |-> Some(m.entries[i].occurrences)]])]

\* placeholder.rsplit('_', 1)
rsplit(s) ==
    LET i == LastUnderscore(s, Len(s))
    IN IF i = 0 THEN <<s>> ELSE <<SubSeq(s, 1, i - 1), SubSeq(s, i + 1, Len(s))>>

\* the value of a string of decimal digits
RECURSIVE DigitsValue(_)
DigitsValue(d) ==
    IF d = <<>> THEN 0
    ELSE 10 * DigitsValue(SubSeq(d, 1, Len(d) - 1)) + (CHOOSE k \in 0..9 : Digits[k + 1] = d[Len(d)])

\* int(s) for a string without sign or blanks: None stands for ValueError
int(s) == IF s # <<>> /\ \A i \in DOMAIN s : IsDigit(s[i]) THEN Some(DigitsValue(s)) ELSE None

\* the category names a persisted placeholder can carry in the model; a category is a
\* name wherever it is a dict key or an argument of _normalize
CategoryNames == Range(PLACEHOLDER_CATEGORIES)
CategoryName(s) == IF \E c \in CategoryNames : Chars(c) = s THEN CHOOSE c \in CategoryNames : Chars(c) = s ELSE "?"

Max(a, b) == IF a >= b THEN a ELSE b

\* a load without "Update counter": the counters stay as they were
LoadCounterUnchanged(counters, category, num) == counters
\* mapping._counters[category] = max(mapping._counters.get(category, 0), num)
LoadCounter(counters, category, num) == DictPut(counters, category, Max(DictGet(counters, category, 0), num))

\* the loop of Mapping.load over data["mappings"].items(): the Mapping built, or the exception raised
RECURSIVE LoadItems(_, _)
LoadItems(items, m) ==
    IF items = <<>> THEN [ok |-> TRUE, m |-> m]
    ELSE LET it == Head(items)
         IN IF it.canonical = None THEN [ok |-> FALSE, err |-> "KeyError"]
            ELSE LET entry == [placeholder |-> it.placeholder,
                               canonical |-> it.canonical.val,
                               variations |-> IF it.variations = None THEN {it.canonical.val}
                                              ELSE Range(it.variations.val),
                               occurrences |-> IF it.occurrences = None THEN 1 ELSE it.occurrences.val]
                     parts == rsplit(it.placeholder)
                     category == CategoryName(parts[1])
                     normalized == _normalize(entry.canonical, category)
                 IN IF Len(parts) < 2 THEN [ok |-> FALSE, err |-> "IndexError"]
                    ELSE LET num == int(parts[2])
                         IN IF num = None THEN [ok |-> FALSE, err |-> "ValueError"]
                            ELSE LoadItems(Tail(items),
                                           [entries |-> EntriesPut(m.entries, entry),
                                            v2p |-> DictPut(m.v2p, normalized, it.placeholder),
                                            counters |-> LoadCounter(m.counters, category, num.val)])

\* Mapping.load on the JSON value json.load returned
load(data) == LoadItems(IF data.mappings = None THEN <<>> ELSE data.mappings.val, EmptyMapping)

(***************************************************************************)
(* Persistence: a session that calls get_or_create_placeholder, saves the  *)
(* Mapping, and loads the file once (a file of an earlier session, or the  *)
(* one it saved), then goes on calling get_or_create_placeholder.          *)
(***************************************************************************)
PersistValues == {Chars("Gent"), Chars("De Bo"), Chars("BO")}
PersistCategories == {"PERSON", "PLACE"}

Item(placeholder, canonical) ==
    [placeholder |-> Chars(placeholder), canonical |-> Some(Chars(canonical)),
     variations |-> None, occurrences |-> None]
File(items) == [statistics |-> None, mappings |-> Some(items)]

\* files of earlier sessions: numbering with gaps, out of order, without padding
GappedFiles ==
    {File(<<Item("PLACE_007", "Gent"), Item("PLACE_002", "Luik")>>),
     File(<<Item("PERSON_002", "De Bo")>>),
     File(<<Item("PLACE_2", "Gent"), Item("PERSON_010", "Bo"), Item("PLACE_001", "Luik")>>)}
\* malformed files: no "mappings", no "canonical", no suffix, a suffix that is no number
MalformedFiles ==
    {[statistics |-> None, mappings |-> None],
     File(<<[placeholder |-> Chars("PLACE_001"), canonical |-> None,
             variations |-> Some(<<Chars("Gent")>>), occurrences |-> Some(1)]>>),
     File(<<Item("PLACE", "Gent")>>),
     File(<<Item("PLACE_001", "Gent"), Item("PLACE_x", "De Bo")>>)}
PersistedFiles == GappedFiles \cup MalformedFiles

InitPersist ==
    /\ mapping = EmptyMapping
    /\ calls = <<>>
    /\ Idle
    /\ file \in {None} \cup PersistedFiles
    /\ chunks = <<>> /\ all_entities = None
    /\ _detector = None /\ detectors = <<>> /\ threads = <<>>

\* mapping.save(path)
Save ==
    /\ pc \in {"idle", "loaded"}
    /\ file' = to_dict(mapping)
    /\ UNCHANGED <<mapping, calls, pc, cfg, text, matches, result, done, decoded, prev, strategy_obj, cands, kept, chunks, all_entities, _detector, detectors, threads>>

\* mapping = Mapping.load(path): prev keeps the Mapping in memory before the call
\* and the number of calls logged so far
Load ==
    /\ pc = "idle"
    /\ file # None
    /\ LET r == load(file)
       IN /\ pc' = IF r.ok THEN "loaded" ELSE r.err
          /\ mapping' = IF r.ok THEN r.m ELSE mapping
    /\ prev' = [kind |-> "load", mapping |-> mapping, at |-> Len(calls)]
    /\ UNCHANGED <<calls, cfg, text, matches, result, done, decoded, strategy_obj, cands, kept, file, chunks, all_entities, _detector, detectors, threads>>

PersistCall ==
    /\ pc \in {"idle", "loaded"}
    /\ \E value \in PersistValues, category \in PersistCategories : GetOrCreate(value, category)

NextPersist == PersistCall \/ Save \/ Load

SpecPersist == InitPersist /\ [][NextPersist]_vars

(***************************************************************************)
(* The Conflict Resolver on its own: _remove_overlaps on any input list.   *)
(***************************************************************************)
MaxPos == 3
MaxCands == 3

\* the text the resolver's candidates are spans of
ResolverText == Chars("0489x")
PatternConfidences == {85, 95}

\* Match's invariant: 0 <= start < end
ResolverSpans == {p \in (0..MaxPos) \X (0..MaxPos) : p[1] < p[2]}
ResolverCandidates ==
    {[text |-> Slice(ResolverText, p[1], p[2]), start |-> p[1], end |-> p[2],
      category |-> "PHONE", confidence |-> c] : p \in ResolverSpans, c \in PatternConfidences}

InitResolve ==
    /\ mapping = EmptyMapping
    /\ calls = <<>>
    /\ Idle
    /\ file = None /\ chunks = <<>> /\ all_entities = None
    /\ _detector = None /\ detectors = <<>> /\ threads = <<>>

AddCandidate(m) ==
    /\ kept = None
    /\ Len(cands) < MaxCands
    /\ cands' = Append(cands, m)
    /\ UNCHANGED <<mapping, calls, pc, cfg, text, matches, result, done, decoded, prev, strategy_obj, kept, file, chunks, all_entities, _detector, detectors, threads>>

Resolve ==
    /\ kept = None
    /\ kept' = [list |-> _remove_overlaps(cands)]
    /\ UNCHANGED <<mapping, calls, pc, cfg, text, matches, result, done, decoded, prev, strategy_obj, cands, file, chunks, all_entities, _detector, detectors, threads>>

NextResolve == (\E m \in ResolverCandidates : AddCandidate(m)) \/ Resolve

SpecResolve == InitResolve /\ [][NextResolve]_vars

(***************************************************************************)
(* A session: encode on a document, then decode of what it returned, a     *)
(* second encode of the same input with a fresh Mapping, or a second       *)
(* encode of another document with the same Mapping (batch processing).    *)
(***************************************************************************)
MaxSegs == 2

\* what documents are made of
Fragments == {Chars("DE BO Wim"), Chars("De Bo Wim"), Chars("EL\nBo"), Chars("Bo Wim An"),
              Chars("+32489"), Chars("Gent"), Chars("PLACE_001"), Chars("a@b.be"),
              Chars("De Gent Gent")}

\* what a document goes on with after its first fragment
MoreFragments == {Chars("De Bo Wim"), Chars("+32489"), Chars("PLACE_001")}

RECURSIVE DocsOf(_)
DocsOf(n) ==
    IF n = 1 THEN Fragments
    ELSE DocsOf(n - 1) \cup {d \o <<" ">> \o f : d \in DocsOf(n - 1), f \in MoreFragments}

Documents == DocsOf(MaxSegs)
\* the documents a batch goes on with
BatchDocuments == {Chars("De Bo Wim"), Chars("Gent"), Chars("+32489")}

\* what is installed: spaCy with its models and Presidio, spaCy without a model, nothing
EnvFull == [spacy |-> TRUE, models |-> {"nl_core_news_sm", "en_core_web_sm"}, presidio |-> TRUE]
EnvNoModel == [spacy |-> TRUE, models |-> {}, presidio |-> FALSE]
EnvBare == [spacy |-> FALSE, models |-> {}, presidio |-> FALSE]
Envs == {EnvFull, EnvNoModel, EnvBare}

\* the keyword arguments of encode, and the environment it runs in
Configs ==
    {[backend |-> b, strategy |-> "replace", language |-> "nl", env |-> e] :
        b \in {"patterns", "hybrid", "auto", "presidio"}, e \in Envs}
    \cup {[backend |-> b, strategy |-> s, language |-> "nl", env |-> EnvFull] :
        b \in {"patterns", "hybrid"}, s \in {"redact", "mask", "hash"}}
\* the same for the encrypt strategy, which is run on the one-fragment documents
EncryptConfigs ==
    {[backend |-> "patterns", strategy |-> "encrypt", language |-> "nl", env |-> EnvFull]}

\* the encode calls a session starts with: <<text, other arguments>>
Inputs == (Documents \X Configs) \cup (Fragments \X EncryptConfigs)

Errors == {"ImportError", "OSError", "ValueError", "TypeError"}

Init ==
    /\ mapping = EmptyMapping
    /\ calls = <<>>
    /\ Idle
    /\ file = None /\ chunks = <<>> /\ all_entities = None
    /\ _detector = None /\ detectors = <<>> /\ threads = <<>>

\* encode up to its loop: get_strategy, _preprocess, _detect_with_backend, the
\* masked filter and the descending sort; t is the text argument, c the other arguments
BeginEncode(t, c) ==
    LET st == get_strategy(c.strategy)
        pre == _preprocess(t)
        det == _detect_with_backend(pre, c.backend, c.language, c.env)
        ms == SortByStartDesc(SelectSeq(det.matches, LAMBDA m : ~_is_masked(m.text)))
    IN /\ cfg' = [backend |-> c.backend, strategy |-> c.strategy, language |-> c.language,
                  env |-> c.env, text |-> t]
       /\ done' = <<>>
       /\ decoded' = None
       /\ IF ~st.ok
          THEN pc' = st.err /\ strategy_obj' = None /\ text' = t /\ matches' = <<>> /\ result' = <<>>
          ELSE IF ~det.ok
          THEN pc' = det.err /\ strategy_obj' = st.obj /\ text' = pre /\ matches' = <<>> /\ result' = <<>>
          ELSE /\ pc' = IF ms = <<>> THEN "encoded" ELSE "loop"
               /\ strategy_obj' = st.obj
               /\ text' = pre
               /\ matches' = ms
               /\ result' = pre

\* encode(t, backend, strategy, language) with mapping=None, on any document
Encode ==
    /\ pc = "idle"
    /\ \E in \in Inputs : BeginEncode(in[1], in[2])
    /\ UNCHANGED <<mapping, calls, prev, cands, kept, file, chunks, all_entities, _detector, detectors, threads>>

\* strategy_obj.anonymize(value, category) for the strategies that keep no state
anonymize(obj, value, category) ==
    IF obj.name = "redact" THEN redact_anonymize(value, category)
    ELSE IF obj.name = "mask" THEN mask_anonymize(value, category)
    ELSE hash_anonymize(value, category)

\* a pass of the loop that registers the match in the Mapping for "replace" only
ReplaceMatchUnregistered(obj, anonymized) ==
    LET match == Head(matches)
        r == get_or_create_placeholder(mapping, match.text, match.category)
    IN /\ mapping' = IF cfg.strategy = "replace" THEN r.m ELSE mapping
       /\ calls' = IF cfg.strategy = "replace"
                   THEN Append(calls, [value |-> match.text, category |-> match.category,
                                       key |-> _normalize(match.text, match.category), ret |-> r.ret])
                   ELSE calls
       /\ result' = Slice(result, 0, match.start)
                    \o (IF cfg.strategy = "replace" THEN r.ret ELSE anonymized)
                    \o Slice(result, match.end, Len(result))
       /\ strategy_obj' = obj
       /\ matches' = Tail(matches)
       /\ done' = Append(done, match)
       /\ pc' = IF Tail(matches) = <<>> THEN "encoded" ELSE "loop"
       /\ UNCHANGED <<cfg, text, decoded, prev, cands, kept, file, chunks, all_entities, _detector, detectors, threads>>

\* one pass of encode's loop with the text `anonymized` for the first match left
ReplaceMatch(obj, anonymized) ==
    LET match == Head(matches)
        r == get_or_create_placeholder(mapping, match.text, match.category)
    IN /\ mapping' = r.m
       /\ calls' = Append(calls, [value |-> match.text, category |-> match.category,
                                  key |-> _normalize(match.text, match.category), ret |-> r.ret])
       /\ result' = Slice(result, 0, match.start)
                    \o (IF cfg.strategy = "replace" THEN r.ret ELSE anonymized)
                    \o Slice(result, match.end, Len(result))
       /\ strategy_obj' = obj
       /\ matches' = Tail(matches)
       /\ done' = Append(done, match)
       /\ pc' = IF Tail(matches) = <<>> THEN "encoded" ELSE "loop"
       /\ UNCHANGED <<cfg, text, decoded, prev, cands, kept, file, chunks, all_entities, _detector, detectors, threads>>

\* one pass of the loop; EncryptStrategy generates its key on first use and
\* Fernet draws a fresh IV for every token
EncodeStep ==
    /\ pc = "loop"
    /\ LET match == Head(matches)
       IN IF cfg.strategy = "replace"
          THEN ReplaceMatch(strategy_obj, <<>>)
          ELSE IF strategy_obj.name = "encrypt"
          THEN \E k \in Keys, iv \in IVs :
                  /\ strategy_obj.key # None => k = strategy_obj.key.val
                  /\ ReplaceMatch([strategy_obj EXCEPT !.key = Some(k)],
                                  encrypt_anonymize(k, iv, match.text, match.category).anonymized)
          ELSE ReplaceMatch(strategy_obj, anonymize(strategy_obj, match.text, match.category))

\* decode(result, mapping) on what encode returned
Decode ==
    /\ pc = "encoded"
    /\ LET r == decode(result, mapping)
       IN IF r.ok THEN pc' = "decoded" /\ decoded' = Some(r.text)
          ELSE pc' = "TypeError" /\ decoded' = None
    /\ UNCHANGED <<mapping, calls, cfg, text, matches, result, done, prev, strategy_obj, cands, kept, file, chunks, all_entities, _detector, detectors, threads>>

\* the same encode call once more, with a fresh Mapping
Rerun ==
    /\ pc = "encoded"
    /\ prev = None
    /\ prev' = [kind |-> "rerun", text |-> result, mapping |-> mapping]
    /\ mapping' = EmptyMapping
    /\ calls' = <<>>
    /\ BeginEncode(cfg.text, cfg)
    /\ UNCHANGED <<cands, kept, file, chunks, all_entities, _detector, detectors, threads>>

\* batch processing: encode of the next document with the Mapping of the first
ContinueBatch ==
    /\ pc = "encoded"
    /\ prev = None
    /\ prev' = [kind |-> "batch", text |-> result, mapping |-> mapping]
    /\ \E t \in BatchDocuments : BeginEncode(t, cfg)
    /\ UNCHANGED <<mapping, calls, cands, kept, file, chunks, all_entities, _detector, detectors, threads>>

Next ==
    \/ Encode
    \/ EncodeStep
    \/ Decode
    \/ Rerun
    \/ ContinueBatch

Spec == Init /\ [][Next]_vars

(***************************************************************************)
(* The arguments of encode: any strategy, backend and language name, known *)
(* or not, on short documents, with a Mapping passed in by the caller;     *)
(* then the same call once more with another strategy.                     *)
(***************************************************************************)
ArgDocuments == {<<>>, Chars("ok"), Chars("Gent"), Chars("EL\nBo"), Chars("EL\nABc"),
                 Chars("De Bo Wim +32489")}
Backends == {"patterns", "hybrid", "spacy", "presidio"}
ArgConfigs ==
    {[backend |-> b, strategy |-> s, language |-> l, env |-> EnvFull] :
        b \in Backends \cup {"regex"}, s \in STRATEGIES \cup {"rot13"}, l \in {"nl", "xx"}}
\* the Mapping the caller passes: a new one, or the one of an earlier call
StartMappings == {EmptyMapping, get_or_create_placeholder(EmptyMapping, Chars("Gent"), "PLACE").m}

InitArgs ==
    /\ mapping \in StartMappings
    /\ calls = <<>>
    /\ Idle
    /\ file = None /\ chunks = <<>> /\ all_entities = None
    /\ _detector = None /\ detectors = <<>> /\ threads = <<>>

\* encode(t, backend, strategy, language, mapping=mapping); prev keeps the Mapping as passed
EncodeArgs ==
    /\ pc = "idle"
    /\ \E t \in ArgDocuments, c \in ArgConfigs : BeginEncode(t, c)
    /\ prev' = [kind |-> "first", mapping |-> mapping]
    /\ UNCHANGED <<mapping, calls, cands, kept, file, chunks, all_entities, _detector, detectors, threads>>

\* the same call with another strategy and the Mapping as it was passed the first time;
\* prev keeps what the first call returned and logged
Restrategy ==
    /\ pc = "encoded"
    /\ prev.kind = "first"
    /\ \E s \in STRATEGIES \ {cfg.strategy} : BeginEncode(cfg.text, [cfg EXCEPT !.strategy = s])
    /\ prev' = [kind |-> "restrategy", start |-> prev.mapping, mapping |-> mapping,
                text |-> result, strategy |-> cfg.strategy, calls |-> calls,
                strategy_obj |-> strategy_obj]
    /\ mapping' = prev.mapping
    /\ calls' = <<>>
    /\ UNCHANGED <<cands, kept, file, chunks, all_entities, _detector, detectors, threads>>

NextArgs ==
    \/ EncodeArgs
    \/ EncodeStep
    \/ Restrategy

SpecArgs == InitArgs /\ [][NextArgs]_vars

(***************************************************************************)
(* Properties                                                              *)
(***************************************************************************)

\* C2 (SpecResolve): no two matches of the list _remove_overlaps returns overlap:
\* for a, b at different places of the list, not (a.start < b.end and b.start < a.end).
C2_NonOverlap ==
    kept # None =>
        \A i, j \in DOMAIN kept.list :
            i # j => ~(kept.list[i].start < kept.list[j].end /\ kept.list[j].start < kept.list[i].end)

\* the resolver ran on a full input list, kept several matches and rejected some
C2_Witness ==
    /\ kept # None
    /\ Len(cands) = MaxCands
    /\ Len(kept.list) >= 2
    /\ Len(kept.list) < Len(cands)

\* C5 (SpecMapping): the placeholder every get_or_create_placeholder(value, category)
\* call returns carries the category of that call.
C5_PlaceholderCarriesCallCategory ==
    \A i \in DOMAIN calls : PlaceholderCategory(calls[i].ret) = Chars(calls[i].category)

\* C10 (SpecMapping): per category the placeholders are numbered 1..n in creation
\* order, no placeholder names two entries, every entry belongs to a category that
\* was used, and the category's counter is n, the number of its entries.
C10_DenseNumbering ==
    /\ \A c \in CallCategories :
          LET es == EntriesOf(mapping, c)
          IN /\ \A k \in DOMAIN es : es[k].placeholder = FormatPlaceholder(c, k)
             /\ DictGet(mapping.counters, c, 0) = Len(es)
             /\ (c \in DOMAIN mapping.counters) <=> (Len(es) > 0)
    /\ \A i, j \in DOMAIN mapping.entries :
          mapping.entries[i].placeholder = mapping.entries[j].placeholder => i = j
    /\ \A i \in DOMAIN mapping.entries :
          \E c \in CallCategories : PlaceholderCategory(mapping.entries[i].placeholder) = Chars(c)

\* two entries of one category and one of another, built by direct calls
C10_Witness ==
    /\ pc = "idle"
    /\ \E c, d \in CallCategories :
          /\ c # d
          /\ Len(EntriesOf(mapping, c)) = 2
          /\ Len(EntriesOf(mapping, d)) = 1
          /\ mapping.counters[c] = 2

\* two half-open spans share a position
SpansOverlap(a, b) == a.start < b.end /\ b.start < a.end

\* everything any detector proposes for the text s, before any resolution
AllCandidates(s) ==
    LET ents == EntsFrom(s, 0, SPACY_ENTS)
    IN detect_emails(s) \o detect_phones(s) \o detect_places(s) \o detect_names(s)
       \o [i \in DOMAIN ents |-> [text |-> ents[i].text, start |-> ents[i].start, end |-> ents[i].end,
                                  category |-> SPACY_LABEL_MAP[ents[i].label], confidence |-> 90]]
       \o PresidioDetect(s)

\* two candidates of different categories claim a common position of s
CategoryAmbiguity(s) ==
    LET c == AllCandidates(s)
    IN \E i, j \in DOMAIN c : SpansOverlap(c[i], c[j]) /\ c[i].category # c[j].category

\* an encode call has returned
Returned == pc \in {"encoded", "decoded"}

\* C1 (Spec): with the replace strategy and a text without category-overlapping
\* ambiguity, decode(encode(text).text, encode(text).mapping) is the text itself.
C1_RoundTrip ==
    (pc = "decoded" /\ cfg.strategy = "replace" /\ prev = None /\ ~CategoryAmbiguity(text))
        => decoded.val = cfg.text

\* C3 (Spec): for every backend the matches encode replaces are pairwise non-overlapping.
C3_ReplacedMatchesDisjoint ==
    pc \in {"loop", "encoded", "decoded"} =>
        LET ms == done \o matches
        IN \A i, j \in DOMAIN ms : i # j => ~SpansOverlap(ms[i], ms[j])

\* the key under which an entry was created: that of the first call that returned it
EntryKey(e) ==
    LET i == CHOOSE i \in DOMAIN calls :
                 calls[i].ret = e.placeholder /\ \A j \in 1..(i - 1) : calls[j].ret # e.placeholder
    IN _normalize(calls[i].value, calls[i].category)

\* C4 (Spec): within one Mapping lifetime two calls whose raw values have the same
\* normalized key return the same placeholder, and once encode has returned, the
\* occurrences of each entry is the number of replaced matches mapped to its key
\* (counted over the encode calls that shared the Mapping).
C4_ConsistentIdentity ==
    /\ \A i, j \in DOMAIN calls :
          _normalize(calls[i].value, calls[i].category) = _normalize(calls[j].value, calls[j].category)
              => calls[i].ret = calls[j].ret
    /\ Returned =>
          /\ \A k \in DOMAIN mapping.entries :
                LET e == mapping.entries[k]
                IN e.occurrences =
                       Cardinality({i \in DOMAIN calls :
                                       _normalize(calls[i].value, calls[i].category) = EntryKey(e)})
          /\ Len(done) <= Len(calls)
          /\ \A k \in DOMAIN done :
                LET call == calls[Len(calls) - Len(done) + k]
                IN call.value = done[k].text /\ call.category = done[k].category

\* encode returned with an entry that counts two surface forms of one entity, next to another entry
C4_Witness ==
    /\ pc = "encoded"
    /\ Len(done) >= 1
    /\ \E k \in DOMAIN mapping.entries :
          mapping.entries[k].occurrences >= 2 /\ Cardinality(mapping.entries[k].variations) >= 2
    /\ Len(mapping.entries) >= 2

\* the second of two encode runs on the same input, each from a fresh Mapping, gave
\* the output text and the mapping content of the first
SameAsFirstRun == result = prev.text /\ mapping = prev.mapping

TiedCandidates(s) ==
    LET c == detect_emails(s) \o detect_phones(s) \o detect_places(s) \o detect_names(s)
    IN \E i, j \in DOMAIN c :
          /\ i # j
          /\ SpansOverlap(c[i], c[j])
          /\ c[i].confidence = c[j].confidence
          /\ MatchLen(c[i]) = MatchLen(c[j])

C7_HybridNeverRaises ==
    (pc # "idle" /\ cfg.backend \in {"hybrid", "auto"} /\ ~_get_model(cfg.language, cfg.env).ok)
        => pc \notin Errors

\* the categories of the placeholder form, as a set
PlaceholderCategorySet == {PLACEHOLDER_CATEGORIES[k] : k \in DOMAIN PLACEHOLDER_CATEGORIES}

\* w is a category of the enumeration, an underscore and 3 or 4 digits
HasPlaceholderForm(w) ==
    \E c \in PlaceholderCategorySet, k \in {3, 4} :
        /\ Len(w) = Len(c) + 1 + k
        /\ SubSeq(w, 1, Len(c)) = Chars(c)
        /\ w[Len(c) + 1] = "_"
        /\ \A j \in (Len(c) + 2)..Len(w) : IsDigit(w[j])

\* the end of the maximal run of word (or of non-word) characters that starts at offset i
RECURSIVE RunEnd(_, _, _)
RunEnd(s, i, isWord) == IF i < Len(s) /\ IsWord(s[i + 1]) = isWord THEN RunEnd(s, i + 1, isWord) ELSE i

\* the text with every maximal word that is a placeholder token with a non-empty entry
\* in m replaced by that entry's canonical value, and everything else as it is
RECURSIVE Restored(_, _, _)
Restored(s, i, m) ==
    IF i >= Len(s) THEN <<>>
    ELSE LET e == RunEnd(s, i, IsWord(s[i + 1]))
             w == Slice(s, i, e)
             k == EntryIndex(m.entries, w)
         IN (IF HasPlaceholderForm(w) /\ k # 0 /\ m.entries[k].canonical # <<>>
             THEN m.entries[k].canonical ELSE w) \o Restored(s, e, m)

\* C8 (Spec): decode never raises; a token of placeholder form without an entry in the
\* Mapping stays as it is, and so does every character outside the placeholder tokens
\* that have an entry.
C8_DecodeTotal ==
    /\ pc # "TypeError"
    /\ pc = "decoded" => decoded.val = Restored(result, 0, mapping)

\* decode ran on a text with the token PLACE_001 that has no entry, restored another
\* placeholder and left the token in place
C8_Witness ==
    /\ pc = "decoded"
    /\ Contains(result, Chars("PLACE_001"))
    /\ EntryIndex(mapping.entries, Chars("PLACE_001")) = 0
    /\ Len(mapping.entries) >= 1
    /\ decoded.val # result
    /\ Contains(decoded.val, Chars("PLACE_001"))

\* C9 (Spec): every placeholder the Mapping Store creates has the form decode scans
\* for: a category of the enumeration, an underscore, 3 or 4 digits.
C9_PlaceholdersDecodable ==
    \A k \in DOMAIN mapping.entries :
        MatchPlaceholderAt(mapping.entries[k].placeholder, 0) = Len(mapping.entries[k].placeholder)

(***************************************************************************)
(* _normalize on its own: any raw value of up to MaxParts pieces and any   *)
(* category, normalized, and the result normalized again.                  *)
(***************************************************************************)
MaxParts == 3

RawPieces == {Chars("el"), Chars("Bo"), Chars("be"), Chars(" "), Chars("|"),
              Chars("00"), Chars("0"), Chars("+"), Chars("48912345")}
RECURSIVE RawsOf(_)
RawsOf(n) == IF n = 0 THEN {<<>>} ELSE RawsOf(n - 1) \cup {r \o t : r \in RawsOf(n - 1), t \in RawPieces}
NormalizeCategories == {"PERSON", "PHONE", "IBAN", "PLACE"}

InitNormalize ==
    /\ mapping = EmptyMapping
    /\ calls = <<>>
    /\ pc = "raw"
    /\ \E raw \in RawsOf(MaxParts), category \in NormalizeCategories :
          /\ cfg = [category |-> category, raw |-> raw]
          /\ text = raw
    /\ matches = <<>> /\ result = <<>> /\ done = <<>> /\ decoded = None /\ prev = None
    /\ strategy_obj = None /\ cands = <<>> /\ kept = None /\ file = None /\ chunks = <<>> /\ all_entities = None
    /\ _detector = None /\ detectors = <<>> /\ threads = <<>>

\* text = self._normalize(text, category); prev keeps the argument
Normalize ==
    /\ pc \in {"raw", "normalized"}
    /\ text' = _normalize(text, cfg.category)
    /\ prev' = [kind |-> "normalize", text |-> text]
    /\ pc' = IF pc = "raw" THEN "normalized" ELSE "renormalized"
    /\ UNCHANGED <<mapping, calls, cfg, matches, result, done, decoded, strategy_obj, cands, kept, file, chunks, all_entities, _detector, detectors, threads>>

NextNormalize == Normalize

SpecNormalize == InitNormalize /\ [][NextNormalize]_vars

(***************************************************************************)
(* One person under several spellings: get_or_create_placeholder called    *)
(* with names that differ from one base name in letter case, token order   *)
(* and particle tokens only.                                               *)
(***************************************************************************)
BaseNames == {<<Chars("Bo")>>, <<Chars("Bo"), Chars("Wim")>>}
\* particle tokens as they are written in documents
ParticleForms == {Chars("van"), Chars("DE")}

InsertAt(s, i, x) == SubSeq(s, 1, i) \o <<x>> \o SubSeq(s, i + 1, Len(s))
\* the tokens in any order, with at most one particle token x put in
Reorderings(tokens) == {[i \in DOMAIN tokens |-> tokens[p[i]]] : p \in Permutations(DOMAIN tokens)}
WithParticle(tokens, x) == {tokens} \cup {InsertAt(tokens, i, x) : i \in 0..Len(tokens)}
\* the spellings of one name: reordered, with or without the particle, as written or in capitals
Spellings(tokens, x) ==
    LET joined == {Join(<<" ">>, t) : t \in UNION {WithParticle(r, x) : r \in Reorderings(tokens)}}
    IN joined \cup {Upper(n) : n \in joined}

InitNames ==
    /\ mapping = EmptyMapping
    /\ calls = <<>>
    /\ pc = "idle"
    /\ \E base \in BaseNames, x \in ParticleForms : cfg = [name |-> base, particle |-> x]
    /\ text = <<>> /\ matches = <<>> /\ result = <<>> /\ done = <<>> /\ decoded = None
    /\ prev = None /\ strategy_obj = None /\ cands = <<>> /\ kept = None /\ file = None /\ chunks = <<>> /\ all_entities = None
    /\ _detector = None /\ detectors = <<>> /\ threads = <<>>

\* mapping.get_or_create_placeholder(name, "PERSON") for one more spelling of the name
CallSpelling == \E name \in Spellings(cfg.name, cfg.particle) : GetOrCreate(name, "PERSON")

NextNames == CallSpelling

SpecNames == InitNames /\ [][NextNames]_vars

(***************************************************************************)
(* Properties of SpecPersist                                               *)
(***************************************************************************)
\* the numeric suffixes of the entries of one category
SuffixesOf(m, category) ==
    {int(rsplit(m.entries[i].placeholder)[2]).val :
        i \in {j \in DOMAIN m.entries : PlaceholderCategory(m.entries[j].placeholder) = Chars(category)}}
\* the placeholders that are keys of entries
Placeholders(m) == {m.entries[i].placeholder : i \in DOMAIN m.entries}
\* the calls made on the loaded Mapping
CallsAfterLoad == {i \in DOMAIN calls : i > prev.at}

\* C11: after Mapping.load each per-category counter is the largest numeric suffix among
\* the placeholders of that category, and get_or_create_placeholder for a key the Mapping
\* does not hold returns a placeholder that is not yet a key of entries and leaves every
\* entry as it was, whatever the gaps and the order of the loaded numbering.
C11_LoadKeepsNumbering ==
    pc = "loaded" =>
        /\ \A c \in CategoryNames :
              LET sfx == SuffixesOf(mapping, c)
              IN DictGet(mapping.counters, c, 0) = IF sfx = {} THEN 0 ELSE CHOOSE n \in sfx : \A k \in sfx : k <= n
        /\ \A value \in PersistValues, category \in PersistCategories :
              _normalize(value, category) \notin DOMAIN mapping.v2p =>
                  LET r == get_or_create_placeholder(mapping, value, category)
                  IN /\ r.ret \notin Placeholders(mapping)
                     /\ SubSeq(r.m.entries, 1, Len(mapping.entries)) = mapping.entries
\* a call on a Mapping loaded from a gapped, unordered numbering created the next number
C11_Witness ==
    /\ pc = "loaded"
    /\ Chars("PLACE_002") \in Placeholders(mapping)
    /\ \E i \in CallsAfterLoad : calls[i].ret = Chars("PLACE_008")

\* the load returned the Mapping that the last save wrote, and nothing was called on it yet
RoundTripped ==
    /\ pc = "loaded"
    /\ Len(calls) = prev.at
    /\ file = to_dict(prev.mapping)

\* C12: load(save(m)) has the entries of m (placeholder, canonical, variations and
\* occurrences, in the same order), the counters of m and the reverse index of m, so
\* decode restores the same text with both and get_or_create_placeholder returns the same
\* placeholder and leaves the same Mapping for both.
C12_SaveLoadRoundTrip ==
    RoundTripped =>
        /\ mapping.entries = prev.mapping.entries
        /\ mapping.counters = prev.mapping.counters
        /\ mapping.v2p = prev.mapping.v2p
        /\ \A p \in Placeholders(prev.mapping) : decode(p, mapping) = decode(p, prev.mapping)
        /\ \A value \in PersistValues, category \in PersistCategories :
              get_or_create_placeholder(mapping, value, category)
                  = get_or_create_placeholder(prev.mapping, value, category)
\* a Mapping of two entries, one of them seen twice under two surface forms, went
\* through save and load
C12_Witness ==
    /\ RoundTripped
    /\ Len(mapping.entries) >= 2
    /\ \E i \in DOMAIN mapping.entries :
          /\ mapping.entries[i].occurrences >= 2
          /\ Cardinality(mapping.entries[i].variations) >= 2

\* C13: Mapping.load of a malformed file (no "mappings", an item without "canonical", a
\* placeholder without a numeric suffix) ends in an exception raised to the caller; it
\* never returns a Mapping, partial or empty.
C13_MalformedLoadFails ==
    (prev # None /\ prev.kind = "load" /\ file \in MalformedFiles) =>
        pc \in {"KeyError", "IndexError", "ValueError"}

(***************************************************************************)
(* Properties of SpecArgs                                                  *)
(***************************************************************************)
\* the Mapping the running encode call was given
StartMapping == IF prev.kind = "first" THEN prev.mapping ELSE prev.start
\* the strategy or the backend of the call is not a known name
UnknownName == cfg # None /\ (cfg.strategy \notin STRATEGIES \/ cfg.backend \notin Backends)

\* C14 (as stated): encode with an unknown strategy or backend name fails with ValueError
\* before any text is processed: its text is still the argument, nothing was detected or
\* replaced, and the Mapping passed in is as it was.
C14_FailsBeforeProcessing ==
    UnknownName =>
        /\ pc = "ValueError"
        /\ text = cfg.text
        /\ mapping = StartMapping /\ calls = <<>> /\ matches = <<>> /\ result = <<>>
\* C14 (amended): encode with an unknown strategy or backend name fails with ValueError
\* and leaves the Mapping passed in as it was, with nothing detected or replaced; an
\* unknown strategy fails before _preprocess has run, an unknown backend after it.
C14_ConfigErrorLeavesMapping ==
    UnknownName =>
        /\ pc = "ValueError"
        /\ mapping = StartMapping /\ calls = <<>> /\ matches = <<>> /\ result = <<>>
        /\ text = IF cfg.strategy \notin STRATEGIES THEN cfg.text ELSE _preprocess(cfg.text)
\* an unknown backend with a known strategy failed on a text that _preprocess changes,
\* with a Mapping that holds an entry
C14_Witness ==
    /\ UnknownName
    /\ cfg.strategy \in STRATEGIES
    /\ pc = "ValueError"
    /\ text # cfg.text
    /\ mapping # EmptyMapping

\* C15: encode with a language code outside LANGUAGE_MODELS and a backend that uses the
\* language (hybrid, spacy, presidio) fails with a configuration error (ValueError);
\* detection never runs with the model of another language.
C15_UnsupportedLanguageFails ==
    (/\ cfg # None
     /\ cfg.strategy \in STRATEGIES
     /\ cfg.backend \in {"hybrid", "spacy", "presidio"}
     /\ cfg.language \notin DOMAIN LANGUAGE_MODELS)
        => pc = "ValueError"

(***************************************************************************)
(* Properties of SpecNormalize                                             *)
(***************************************************************************)
\* C16: _normalize is idempotent for every category (PERSON, PHONE, IBAN and the
\* default): normalizing a normalized value gives that value again.
C16_NormalizeIdempotent ==
    pc = "renormalized" => text = prev.text
\* values that the first pass changed, by each branch: a name of two parts, a number
\* with the prefix 00 twice, a local number of ten digits
C16_Witness ==
    /\ pc = "renormalized"
    /\ text # cfg.raw
    /\ \/ cfg.category = "PERSON" /\ "|" \in Range(text) /\ " " \in Range(cfg.raw)
       \/ cfg.category = "PHONE" /\ StartsWithAt(cfg.raw, 0, Chars("0000"))
       \/ cfg.category = "PHONE" /\ StartsWithAt(text, 0, Chars("+32"))

(***************************************************************************)
(* Properties of SpecNames                                                 *)
(***************************************************************************)
\* C17: names that differ only in letter case, token order or the presence of particle
\* tokens get the same key from the PERSON normalization; they share one placeholder,
\* whose entry counts one occurrence per call and keeps every spelling.
C17_SpellingsShareKey ==
    /\ \A i, j \in DOMAIN calls : calls[i].key = calls[j].key /\ calls[i].ret = calls[j].ret
    /\ calls # <<>> =>
          /\ Len(mapping.entries) = 1
          /\ mapping.entries[1].placeholder = Chars("PERSON_001")
          /\ mapping.entries[1].occurrences = Len(calls)
          /\ mapping.entries[1].variations = {calls[i].value : i \in DOMAIN calls}
\* three spellings of a name of two tokens: one in capitals, one with a particle, and
\* two in different token order
C17_Witness ==
    /\ Len(calls) = 3
    /\ Len(cfg.name) = 2
    /\ Cardinality(mapping.entries[1].variations) = 3
    /\ \E i \in DOMAIN calls : calls[i].value = Upper(calls[i].value)
    /\ \E i \in DOMAIN calls : Len(Split(calls[i].value)) = 3
    /\ \E i, j \in DOMAIN calls :
          /\ Len(Split(calls[i].value)) = 2 /\ Len(Split(calls[j].value)) = 2
          /\ Upper(Split(calls[i].value)[1]) = Upper(Split(calls[j].value)[2])

\* C18: when detection finds no match (the empty text included), encode with a new
\* Mapping returns the input text unchanged and a Mapping without entries.
C18_NoMatchReturnsInput ==
    (/\ pc = "encoded"
     /\ done = <<>>
     /\ prev.kind = "first"
     /\ prev.mapping = EmptyMapping)
        => /\ result = cfg.text
           /\ mapping = EmptyMapping

\* C19: for the same text, backend and starting Mapping, the Mapping after encode is the
\* same whichever strategy is chosen: with redact, mask, hash and encrypt as with replace,
\* every replaced match is registered by exactly one get_or_create_placeholder call, in
\* loop order; only the text that encode returns depends on the strategy.
C19_MappingIndependentOfStrategy ==
    (pc = "encoded" /\ prev # None /\ prev.kind \in {"first", "restrategy"}) =>
        /\ Len(calls) = Len(done)
        /\ \A i \in DOMAIN calls :
              calls[i].value = done[i].text /\ calls[i].category = done[i].category
        /\ prev.kind = "restrategy" => (mapping = prev.mapping /\ calls = prev.calls)
\* a text with two matches was encoded with replace and then with encrypt, from a
\* Mapping that held an entry; the two texts returned differ
C19_Witness ==
    /\ pc = "encoded"
    /\ prev # None /\ prev.kind = "restrategy"
    /\ prev.strategy = "replace" /\ cfg.strategy = "encrypt"
    /\ Len(done) = 2
    /\ prev.start # EmptyMapping
    /\ result # prev.text

\* return result, mapping
EncodeReturn == <<result, mapping>>

\* C20: with the encrypt strategy the key emitted in AnonymizedValue.metadata is not
\* dropped: it is part of what encode returns (a further component of the returned
\* tuple, or a field of the Mapping or of its entries), so the ciphertexts can be reversed.
C20_KeyReachesCaller ==
    (/\ pc = "encoded"
     /\ strategy_obj # None
     /\ strategy_obj.name = "encrypt"
     /\ strategy_obj.key # None)
        => LET metadata == [key |-> strategy_obj.key.val]
           IN \/ Len(EncodeReturn) >= 3 /\ EncodeReturn[3] = metadata
              \/ "metadata" \in DOMAIN mapping /\ mapping.metadata = metadata
              \/ \E i \in DOMAIN mapping.entries :
                    "metadata" \in DOMAIN mapping.entries[i] /\ mapping.entries[i].metadata = metadata

(***************************************************************************)
(* detectors/patterns.py: _validate_bsn and detect_national_ids            *)
(* The national-ID patterns are groups of digits with an optional          *)
(* separator between two groups and \b at both ends. Of NATIONAL_ID_       *)
(* PATTERNS the model keeps the ones that can match a run of nine digits.  *)
(* U+0130 is the one character of the model whose str.lower() has two      *)
(* code points (U+0069 U+0307).                                            *)
(***************************************************************************)
\* str.lower() on one character: the code points it becomes
LowerChars(c) ==
    IF c = "U+0130" THEN <<"i", "U+0307">>
    ELSE IF IsUpper(c) THEN <<LowerCase[CHOOSE i \in DOMAIN UpperCase : UpperCase[i] = c]>>
    ELSE <<c>>

\* str.lower()
RECURSIVE Lower(_)
Lower(s) == IF s = <<>> THEN <<>> ELSE LowerChars(Head(s)) \o Lower(Tail(s))

IdPat(groups, seps, subtype) == [groups |-> groups, seps |-> seps, subtype |-> subtype]

\* (r'\b\d{9}\b', 'NL_BSN'), (r'\b\d{8}[-.\s]?\d{1}\b', 'NL_BSN'),
\* (r'\b\d{3}[-\s]?\d{2}[-\s]?\d{4}\b', 'US_SSN')
NATIONAL_ID_PATTERNS ==
    <<IdPat(<<9>>, {}, "NL_BSN"),
      IdPat(<<8, 1>>, {"-", ".", " ", "\n", "\t"}, "NL_BSN"),
      IdPat(<<3, 2, 4>>, {"-", " ", "\n", "\t"}, "US_SSN")>>

\* ID_CONTEXT, the keywords that the documents of the model can hold
ID_CONTEXT == {Chars("bsn"), Chars("ssn"), Chars("social security"), Chars("nie")}

\* the digit groups of a pattern from offset i on: the end offset, or -1
RECURSIVE GroupsEndAt(_, _, _, _)
GroupsEndAt(s, i, groups, seps) ==
    IF groups = <<>> THEN i
    ELSE IF DigitRun(s, i, Head(groups)) < Head(groups) THEN -1
    ELSE LET j == i + Head(groups)
             k == IF Tail(groups) # <<>> /\ j < Len(s) /\ s[j + 1] \in seps THEN j + 1 ELSE j
         IN GroupsEndAt(s, k, Tail(groups), seps)

\* re.match of one national-ID pattern at offset i: the end offset, or -1
IdPatternEndAt(s, i, pat) ==
    IF ~WordBoundary(s, i) THEN -1
    ELSE LET e == GroupsEndAt(s, i, pat.groups, pat.seps)
         IN IF e >= 0 /\ WordBoundary(s, e) THEN e ELSE -1

\* re.finditer(pattern, text, re.IGNORECASE) for a national-ID pattern
RECURSIVE IdFindIterFrom(_, _, _)
IdFindIterFrom(s, i, pat) ==
    IF i >= Len(s) THEN <<>>
    ELSE LET e == IdPatternEndAt(s, i, pat)
         IN IF e > i THEN <<(<<i, e>>)>> \o IdFindIterFrom(s, e, pat) ELSE IdFindIterFrom(s, i + 1, pat)

bsn_weights == <<9, 8, 7, 6, 5, 4, 3, 2, -1>>

RECURSIVE WeightedSum(_, _)
WeightedSum(digits, weights) ==
    IF digits = <<>> THEN 0
    ELSE DigitsValue(<<Head(digits)>>) * Head(weights) + WeightedSum(Tail(digits), Tail(weights))

\* _validate_bsn(bsn): the 11-proef
_validate_bsn(bsn) ==
    LET digits == SelectSeq(bsn, IsDigit)   \* re.sub(r'\D', '', bsn)
    IN IF Len(digits) # 9 THEN FALSE ELSE WeightedSum(digits, bsn_weights) % 11 = 0

\* start_context = max(0, m.start() - 50)
context_window == 50

\* the body of the finditer loop of detect_national_ids for one pattern
RECURSIVE AppendIds(_, _, _, _)
AppendIds(found, spans, s, subtype) ==
    IF spans = <<>> THEN found
    ELSE LET span == Head(spans)
             seen == \E j \in DOMAIN found : <<found[j].start, found[j].end>> = span
             text_lower == Lower(s)
             start_context == IF span[1] - context_window > 0 THEN span[1] - context_window ELSE 0
             before == Slice(text_lower, start_context, span[1])
             has_context == \E ctx \in ID_CONTEXT : Contains(before, ctx)
             group == Slice(s, span[1], span[2])
             skip ==
                \/ seen
                \/ subtype = "NL_BSN" /\ ~_validate_bsn(group) /\ ~has_context
                \/ subtype = "US_SSN"
                   /\ ~(Contains(before, Chars("ssn")) \/ Contains(before, Chars("social security")))
         IN AppendIds(IF skip THEN found
                      ELSE Append(found, NewMatch(s, span, "ID", IF has_context THEN 85 ELSE 70)),
                      Tail(spans), s, subtype)

RECURSIVE DetectIdsWith(_, _, _)
DetectIdsWith(patterns, found, s) ==
    IF patterns = <<>> THEN found
    ELSE DetectIdsWith(Tail(patterns),
                       AppendIds(found, IdFindIterFrom(s, 0, Head(patterns)), s, Head(patterns).subtype), s)

\* detect_national_ids(text)
detect_national_ids(s) == DetectIdsWith(NATIONAL_ID_PATTERNS, <<>>, s)

(***************************************************************************)
(* National IDs: one document holding one candidate number, handed to      *)
(* detect_national_ids; the candidate itself handed to _validate_bsn.      *)
(* A document is: some U+0130, a keyword or none, a gap of spaces, the     *)
(* candidate, a tail.                                                      *)
(***************************************************************************)
MaxShift == 1

IdBases == {Chars("11122233"), Chars("12345678"), Chars("00000000"), Chars("98765432")}
IdCandidates ==
    {b \o <<Digits[d]>> : b \in IdBases, d \in DOMAIN Digits}
    \cup {Chars("11122233"), Chars("1112223330"), Chars("11122233-3"), Chars("12345678 9"),
          Chars("111-22-2333")}
IdKeywords == {<<>>, Chars("bsn"), Chars("BSN"), Chars("ssn")}
IdGaps == {1, 47, 48}

IdDocument(shift, keyword, gap, candidate) ==
    Repeat("U+0130", shift) \o keyword \o Repeat(" ", gap) \o candidate \o Chars(" ok")

InitIds ==
    /\ mapping = EmptyMapping
    /\ calls = <<>>
    /\ pc = "idle"
    /\ \E shift \in 0..MaxShift, keyword \in IdKeywords, gap \in IdGaps, candidate \in IdCandidates :
          /\ cfg = [candidate |-> candidate, start |-> shift + Len(keyword) + gap]
          /\ text = IdDocument(shift, keyword, gap, candidate)
    /\ matches = <<>> /\ result = <<>> /\ done = <<>> /\ decoded = None /\ prev = None
    /\ strategy_obj = None /\ cands = <<>> /\ kept = None /\ file = None /\ chunks = <<>> /\ all_entities = None
    /\ _detector = None /\ detectors = <<>> /\ threads = <<>>

\* matches = detect_national_ids(text)
DetectIds ==
    /\ pc = "idle"
    /\ matches' = detect_national_ids(text)
    /\ pc' = "detected"
    /\ UNCHANGED <<mapping, calls, cfg, text, result, done, decoded, prev, strategy_obj, cands, kept, file, chunks, all_entities, _detector, detectors, threads>>

\* _validate_bsn(candidate)
ValidateBsn ==
    /\ calls = <<>>
    /\ calls' = <<[fn |-> "_validate_bsn", arg |-> cfg.candidate, ret |-> _validate_bsn(cfg.candidate)]>>
    /\ UNCHANGED <<mapping, pc, cfg, text, matches, result, done, decoded, prev, strategy_obj, cands, kept, file, chunks, all_entities, _detector, detectors, threads>>

NextIds == DetectIds \/ ValidateBsn

SpecIds == InitIds /\ [][NextIds]_vars

\* the 11-proef as the specification words it: nine digits d1..d9 with
\* 9*d1 + 8*d2 + ... + 2*d8 - d9 divisible by 11
ElevenProef(value) ==
    /\ Len(SelectSeq(value, IsDigit)) = 9
    /\ LET d == [i \in 1..9 |-> DigitsValue(<<SelectSeq(value, IsDigit)[i]>>)]
       IN (9 * d[1] + 8 * d[2] + 7 * d[3] + 6 * d[4] + 5 * d[5] + 4 * d[6] + 3 * d[7] + 2 * d[8]
           + 11 * 9 - d[9]) % 11 = 0

\* nine digits and nothing else
BareNineDigits(value) == Len(value) = 9 /\ \A i \in DOMAIN value : IsDigit(value[i])

\* an ID context keyword, in any case, lies in the 50 characters of the text before offset start
KeywordBefore(s, start) ==
    LET from == IF start - context_window > 0 THEN start - context_window ELSE 0
    IN \E ctx \in ID_CONTEXT : Contains(Upper(Slice(s, from, start)), Upper(ctx))

\* C21, first half: _validate_bsn returns true exactly for inputs with nine digits
\* whose weighted digit sum is divisible by 11
C21_ValidateBsnIsElevenProef ==
    \A i \in DOMAIN calls :
        calls[i].fn = "_validate_bsn" => (calls[i].ret <=> ElevenProef(calls[i].arg))

\* C21: _validate_bsn is the 11-proef, and detect_national_ids emits a bare
\* nine-digit candidate as an ID match only if the 11-proef passes or an ID
\* context keyword lies in the 50 characters before the candidate
C21_BsnEmittedOnlyIfValidOrContext ==
    /\ C21_ValidateBsnIsElevenProef
    /\ pc = "detected" =>
          \A i \in DOMAIN matches :
              BareNineDigits(matches[i].text) =>
                  ElevenProef(matches[i].text) \/ KeywordBefore(text, matches[i].start)

(***************************************************************************)
(* The mask strategy on e-mail values: MaskStrategy().anonymize(value,     *)
(* "EMAIL") for every value local@domain with parts of up to MaxEmail      *)
(* characters, and for the value of the scenario.                          *)
(***************************************************************************)
MaxEmail == 3

RECURSIVE StringsUpTo(_, _)
\* the strings of at most n characters over an alphabet
StringsUpTo(alphabet, n) ==
    IF n = 0 THEN {<<>>}
    ELSE LET shorter == StringsUpTo(alphabet, n - 1)
         IN shorter \cup {Append(s, c) : s \in shorter, c \in alphabet}

EmailValues ==
    {local \o <<"@">> \o domain : local \in StringsUpTo({"j", "@", "*"}, MaxEmail),
                                  domain \in StringsUpTo({"e", "."}, MaxEmail)}
    \cup {Chars("jan@example.com"), Chars("jan"), Chars("jan example.com")}

InitMask ==
    /\ mapping = EmptyMapping
    /\ calls = <<>>
    /\ pc = "idle"
    /\ cfg = [strategy |-> "mask", category |-> "EMAIL"]
    /\ text \in EmailValues
    /\ matches = <<>> /\ result = <<>> /\ done = <<>> /\ decoded = None /\ prev = None
    /\ strategy_obj = None /\ cands = <<>> /\ kept = None /\ file = None /\ chunks = <<>> /\ all_entities = None
    /\ _detector = None /\ detectors = <<>> /\ threads = <<>>

\* result = MaskStrategy().anonymize(value, "EMAIL").anonymized
MaskEmail ==
    /\ pc = "idle"
    /\ result' = mask_anonymize(text, cfg.category)
    /\ pc' = "masked"
    /\ UNCHANGED <<mapping, calls, cfg, text, matches, done, decoded, prev, strategy_obj, cands, kept, file, chunks, all_entities, _detector, detectors, threads>>

NextMask == MaskEmail

SpecMask == InitMask /\ [][NextMask]_vars

\* the 1-based position of the last c in s, 0 when there is none
LastPosition(s, c) ==
    IF c \in Range(s) THEN CHOOSE i \in DOMAIN s : s[i] = c /\ \A j \in DOMAIN s : j > i => s[j] # c
    ELSE 0

\* the value has a non-empty local part and a domain holding a dot
MaskableEmail(s) ==
    /\ LastPosition(s, "@") > 1
    /\ LastPosition(s, ".") > LastPosition(s, "@")

\* the positions the mask keeps: the first character of the local part, the "@"
\* between local part and domain, the first character of the domain, and the
\* last dot with everything after it
KeptPosition(s, i) ==
    \/ i = 1
    \/ i = LastPosition(s, "@")
    \/ i = LastPosition(s, "@") + 1
    \/ i >= LastPosition(s, ".")

\* C22: on an EMAIL value with a non-empty local part and a dot in the domain
\* the mask strategy returns a value of the same length that keeps the first
\* character of the local part, the "@", the first character of the domain and
\* the ending from the last dot on, and holds the mask character everywhere else
C22_MaskEmailKeepsFormat ==
    pc = "masked" /\ MaskableEmail(text) =>
        /\ Len(result) = Len(text)
        /\ \A i \in DOMAIN text :
              result[i] = IF KeptPosition(text, i) THEN text[i] ELSE mask_char

\* the scenario: "jan@example.com" gives "j**@e******.com"
C22_Witness ==
    pc = "masked" /\ text = Chars("jan@example.com") /\ result = Chars("j**@e******.com")

\* (confidence, length) of k is not lower than that of m
KeyNotLower(k, m) ==
    \/ k.confidence > m.confidence
    \/ k.confidence = m.confidence /\ MatchLen(k) >= MatchLen(m)

\* C23 (SpecResolve): what _remove_overlaps keeps is a maximal subset of its input under
\* the order (confidence descending, then length descending): every kept match is one of
\* the input matches, and every input match that is not kept overlaps a kept match whose
\* (confidence, length) is not lower than its own
C23_ResolverKeepsMaximalSubset ==
    kept # None =>
        /\ \A i \in DOMAIN kept.list : kept.list[i] \in Range(cands)
        /\ \A j \in DOMAIN cands :
              cands[j] \notin Range(kept.list) =>
                  \E i \in DOMAIN kept.list :
                      SpansOverlap(kept.list[i], cands[j]) /\ KeyNotLower(kept.list[i], cands[j])

\* a match is rejected for a kept match of the same confidence and the same length,
\* and another one for a kept match of higher confidence that is shorter
C23_Witness ==
    /\ kept # None
    /\ \E j \in DOMAIN cands, i \in DOMAIN kept.list :
          /\ cands[j] \notin Range(kept.list)
          /\ SpansOverlap(kept.list[i], cands[j])
          /\ kept.list[i].confidence = cands[j].confidence
          /\ MatchLen(kept.list[i]) = MatchLen(cands[j])
    /\ \E j \in DOMAIN cands, i \in DOMAIN kept.list :
          /\ cands[j] \notin Range(kept.list)
          /\ SpansOverlap(kept.list[i], cands[j])
          /\ kept.list[i].confidence > cands[j].confidence
          /\ MatchLen(kept.list[i]) < MatchLen(cands[j])

(***************************************************************************)
(* The Hybrid Merger on its own: HybridDetector.detect on a document, with *)
(* the language model as an external function that may return any list of  *)
(* up to MaxEnts entities (text, start, end, label) of the document.       *)
(***************************************************************************)
MaxEnts == 2

HybridDocuments == {Chars("Bo a@b.be Gent"), Chars("Bo +32489 Gent")}
\* the offsets at which the entities of the model start and end
EntOffsets == {0, 2, 3, 5, 9, 14}
EntLabels == {"PER", "ORG"}
EntsOf(s) ==
    {[text |-> Slice(s, p[1], p[2]), start |-> p[1], end |-> p[2], label |-> l] :
        p \in {q \in EntOffsets \X EntOffsets : q[1] < q[2]}, l \in EntLabels}

RECURSIVE ListsUpTo(_, _)
\* the lists of at most n elements of a set
ListsUpTo(set, n) ==
    IF n = 0 THEN {<<>>}
    ELSE LET shorter == ListsUpTo(set, n - 1)
         IN shorter \cup {Append(l, x) : l \in shorter, x \in set}

InitHybrid ==
    /\ mapping = EmptyMapping
    /\ calls = <<>>
    /\ pc = "idle"
    /\ \E s \in HybridDocuments, include_org \in BOOLEAN :
          /\ text = s
          /\ \E ents \in ListsUpTo(EntsOf(s), MaxEnts) :
                cfg = [include_org |-> include_org, ner_matches |-> ents]
    /\ matches = <<>> /\ result = <<>> /\ done = <<>> /\ decoded = None /\ prev = None
    /\ strategy_obj = None /\ cands = <<>> /\ kept = None /\ file = None /\ chunks = <<>> /\ all_entities = None
    /\ _detector = None /\ detectors = <<>> /\ threads = <<>>

\* matches = HybridDetector().detect(text, include_org=...), nlp(text) returning cfg.ner_matches
DetectHybrid ==
    /\ pc = "idle"
    /\ matches' = HybridMerge(text, cfg.ner_matches, cfg.include_org)
    /\ pc' = "detected"
    /\ UNCHANGED <<mapping, calls, cfg, text, result, done, decoded, prev, strategy_obj, cands, kept, file, chunks, all_entities, _detector, detectors, threads>>

NextHybrid == DetectHybrid

SpecHybrid == InitHybrid /\ [][NextHybrid]_vars

\* the matches of the returned list that come from the entity detector
NerDerived(m) == m \notin Range(HybridPatternMatches(text))

\* C24: in the list HybridDetector.detect returns every pattern-derived match is present,
\* and no match derived from the entity detector overlaps (half-open intervals) a
\* pattern-derived match or another match derived from the entity detector
C24_NerNeverOverlaps ==
    pc = "detected" =>
        /\ \A k \in DOMAIN HybridPatternMatches(text) :
              \E i \in DOMAIN matches : matches[i] = HybridPatternMatches(text)[k]
        /\ Len(matches) >= Len(HybridPatternMatches(text))
        /\ \A i, j \in DOMAIN matches :
              i # j /\ NerDerived(matches[i]) => ~SpansOverlap(matches[i], matches[j])

\* the model returned an entity that overlaps a pattern match and two entities that
\* overlap each other; one entity made it into the list
C24_Witness ==
    /\ pc = "detected"
    /\ \E i \in DOMAIN matches : NerDerived(matches[i])
    /\ \E e \in DOMAIN cfg.ner_matches, k \in DOMAIN HybridPatternMatches(text) :
          /\ SpansOverlap(cfg.ner_matches[e], HybridPatternMatches(text)[k])
          /\ cfg.ner_matches[e].label = "PER"
          /\ <<cfg.ner_matches[e].start, cfg.ner_matches[e].end>>
                # <<HybridPatternMatches(text)[k].start, HybridPatternMatches(text)[k].end>>
    /\ \E e, f \in DOMAIN cfg.ner_matches :
          /\ e # f
          /\ SpansOverlap(cfg.ner_matches[e], cfg.ner_matches[f])

(***************************************************************************)
(* detectors/hybrid.py: HybridDetector._process_in_chunks                  *)
(* One action per iteration of the while loop that cuts the text, one for  *)
(* the for loop that hands every chunk to the language model.              *)
(***************************************************************************)
\* str.rfind(sub, lo, hi): the greatest offset in lo..hi-len(sub) where sub stands, or -1
RFindSub(s, sub, lo, hi) ==
    LET at == {i \in lo..(hi - Len(sub)) : StartsWithAt(s, i, sub)}
    IN IF at = {} THEN -1 ELSE CHOOSE i \in at : \A j \in at : j <= i

\* a cut that takes chunk_size characters whatever the text holds
ChunkEndFixed(s, current_pos, chunk_size) == current_pos + chunk_size
\* the body of the while loop up to chunks.append: the end of the chunk that starts at current_pos
ChunkEnd(s, current_pos, chunk_size) ==
    LET chunk_end == IF current_pos + chunk_size < Len(s) THEN current_pos + chunk_size ELSE Len(s)
        para_break == RFindSub(s, <<"\n", "\n">>, current_pos, chunk_end)
        sent_break == RFindSub(s, <<".", " ">>, current_pos, chunk_end)
    IN IF chunk_end < Len(s)
       THEN IF para_break > current_pos + (chunk_size \div 2) THEN para_break + 2
            ELSE IF sent_break > current_pos + (chunk_size \div 2) THEN sent_break + 2
            ELSE chunk_end
       ELSE chunk_end

\* the local current_pos: 0, then the end of the chunk appended last
current_pos == IF chunks = <<>> THEN 0 ELSE chunks[Len(chunks)][2]

\* for start_offset, end_offset in chunks: all_entities.extend(_extract_ner_entities(...))
RECURSIVE ChunkEntities(_, _)
ChunkEntities(s, cs) ==
    IF cs = <<>> THEN <<>>
    ELSE _extract_ner_entities(Slice(s, Head(cs)[1], Head(cs)[2]), Head(cs)[1])
         \o ChunkEntities(s, Tail(cs))

MaxPieces == 3
MaxChunk == 7

ChunkPieces == {Chars("Gent"), Chars(". "), Chars("\n\n")}
RECURSIVE ChunkTexts(_)
ChunkTexts(n) ==
    IF n = 0 THEN {<<>>} ELSE ChunkTexts(n - 1) \cup {t \o p : t \in ChunkTexts(n - 1), p \in ChunkPieces}

\* the state at the entry of _process_in_chunks: detect calls it when len(text) > chunk_size
InitChunks ==
    /\ mapping = EmptyMapping
    /\ calls = <<>>
    /\ pc = "chunking"
    /\ \E s \in ChunkTexts(MaxPieces), chunk_size \in 1..MaxChunk :
          /\ Len(s) > chunk_size
          /\ text = s
          /\ cfg = [chunk_size |-> chunk_size]
    /\ matches = <<>> /\ result = <<>> /\ done = <<>> /\ decoded = None /\ prev = None
    /\ strategy_obj = None /\ cands = <<>> /\ kept = None /\ file = None
    /\ chunks = <<>> /\ all_entities = None
    /\ _detector = None /\ detectors = <<>> /\ threads = <<>>

\* one iteration of `while current_pos < len(text)`
CutChunk ==
    /\ pc = "chunking"
    /\ current_pos < Len(text)
    /\ chunks' = Append(chunks, <<current_pos, ChunkEnd(text, current_pos, cfg.chunk_size)>>)
    /\ UNCHANGED <<mapping, calls, pc, cfg, text, matches, result, done, decoded, prev, strategy_obj,
                   cands, kept, file, all_entities, _detector, detectors, threads>>

\* the while loop is left; the for loop over the chunks; return all_entities
ProcessChunks ==
    /\ pc = "chunking"
    /\ ~(current_pos < Len(text))
    /\ all_entities' = Some(ChunkEntities(text, chunks))
    /\ pc' = "chunked"
    /\ UNCHANGED <<mapping, calls, cfg, text, matches, result, done, decoded, prev, strategy_obj,
                   cands, kept, file, chunks, _detector, detectors, threads>>

NextChunks == CutChunk \/ ProcessChunks

SpecChunks == InitChunks /\ [][NextChunks]_vars

\* the interpreter runs the loop: a step that is possible is taken
SpecChunksFair == SpecChunks /\ WF_vars(NextChunks)

\* the chunks cut so far are non-empty, in order, contiguous from offset 0 on, inside
\* the text, and at most chunk_size characters long
ChunksWellFormed ==
    \A k \in DOMAIN chunks :
        /\ chunks[k][1] = (IF k = 1 THEN 0 ELSE chunks[k - 1][2])
        /\ chunks[k][1] < chunks[k][2]
        /\ chunks[k][2] <= Len(text)
        /\ chunks[k][2] - chunks[k][1] <= cfg.chunk_size

\* every offset of the text lies in exactly one chunk
ChunksCoverOnce ==
    \A i \in 0..(Len(text) - 1) :
        Cardinality({k \in DOMAIN chunks : chunks[k][1] <= i /\ i < chunks[k][2]}) = 1

\* the entities returned are, chunk by chunk, what the language model finds in the text
\* of the chunk, with both offsets moved by the start offset of the chunk
EntitiesShifted ==
    /\ \A e \in DOMAIN all_entities.val :
          LET ent == all_entities.val[e]
          IN /\ Slice(text, ent.start, ent.end) = ent.text
             /\ \E k \in DOMAIN chunks :
                   /\ chunks[k][1] <= ent.start /\ ent.end <= chunks[k][2]
                   /\ \E f \in DOMAIN EntsFrom(Slice(text, chunks[k][1], chunks[k][2]), 0, SPACY_ENTS) :
                         LET local == EntsFrom(Slice(text, chunks[k][1], chunks[k][2]), 0, SPACY_ENTS)[f]
                         IN /\ ent.start = local.start + chunks[k][1]
                            /\ ent.end = local.end + chunks[k][1]
                            /\ ent.label = local.label
    /\ \A k \in DOMAIN chunks :
          \A f \in DOMAIN EntsFrom(Slice(text, chunks[k][1], chunks[k][2]), 0, SPACY_ENTS) :
              LET local == EntsFrom(Slice(text, chunks[k][1], chunks[k][2]), 0, SPACY_ENTS)[f]
              IN \E e \in DOMAIN all_entities.val :
                    /\ all_entities.val[e].start = local.start + chunks[k][1]
                    /\ all_entities.val[e].end = local.end + chunks[k][1]

ChunkingCorrect ==
    /\ ChunksWellFormed
    /\ pc = "chunked" => ChunksCoverOnce /\ EntitiesShifted

\* C25 (SpecChunksFair): for every text longer than chunk_size and every chunk_size >= 1,
\* _process_in_chunks terminates, its chunks are non-empty, in order, contiguous, at most
\* chunk_size characters long and cover [0, len(text)) exactly once, and the offsets of
\* every entity are shifted by the start offset of its chunk
C25_ChunkingTerminatesAndCovers == []ChunkingCorrect /\ <>(pc = "chunked")

\* a chunk that ends early, right after a paragraph break, and an entity found in a
\* chunk that does not start at offset 0
C25_Witness ==
    /\ pc = "chunked"
    /\ \E k \in DOMAIN chunks :
          chunks[k][2] < Len(text) /\ Slice(text, chunks[k][2] - 2, chunks[k][2]) = <<"\n", "\n">>
          /\ chunks[k][2] - chunks[k][1] < cfg.chunk_size
    /\ \E e \in DOMAIN all_entities.val, k \in DOMAIN chunks :
          chunks[k][1] > 0 /\ all_entities.val[e].start >= chunks[k][1]

\* the offsets at which the text was cut: the ends of the chunks before the end of the text
CutPoints == {chunks[k][2] : k \in DOMAIN chunks} \ {Len(text)}

\* C26 (SpecChunks): every chunk cut point other than the end of the text is at a paragraph
\* or sentence boundary, right after "\n\n" or ". ", so that no entity the language model
\* finds in the whole text lies across a cut point
C26_CutsAtBoundaries ==
    pc = "chunked" =>
        /\ \A c \in CutPoints : Slice(text, c - 2, c) \in {<<"\n", "\n">>, <<".", " ">>}
        /\ \A c \in CutPoints :
              \A e \in DOMAIN EntsFrom(text, 0, SPACY_ENTS) :
                  ~(EntsFrom(text, 0, SPACY_ENTS)[e].start < c /\ c < EntsFrom(text, 0, SPACY_ENTS)[e].end)

\* the matches of the running encode call, replaced or not
SessionMatches == done \o matches

\* the precondition of the rewrite: the matches do not overlap one another, and each
\* holds the characters the preprocessed text has at its span
RewritePrecondition ==
    /\ \A i, j \in DOMAIN SessionMatches :
          i # j => ~SpansOverlap(SessionMatches[i], SessionMatches[j])
    /\ \A i \in DOMAIN SessionMatches :
          Slice(text, SessionMatches[i].start, SessionMatches[i].end) = SessionMatches[i].text

\* what the strategy of the session puts in the place of the match m
ReplacementsOf(m) ==
    IF cfg.strategy = "replace"
    THEN {calls[i].ret : i \in {j \in DOMAIN calls : calls[j].value = m.text /\ calls[j].category = m.category}}
    ELSE IF cfg.strategy = "encrypt"
    THEN {encrypt_anonymize(k, iv, m.text, m.category).anonymized : k \in Keys, iv \in IVs}
    ELSE {anonymize(strategy_obj, m.text, m.category)}

\* the text s from offset pos on, with the span of each match of ms (ascending, apart)
\* replaced by one of its replacements and everything else as it is
RECURSIVE Rewrites(_, _, _)
Rewrites(s, pos, ms) ==
    IF ms = <<>> THEN {Slice(s, pos, Len(s))}
    ELSE {Slice(s, pos, Head(ms).start) \o r \o rest :
             r \in ReplacementsOf(Head(ms)), rest \in Rewrites(s, Head(ms).end, Tail(ms))}

\* C27 (Spec): given pairwise non-overlapping matches whose text is the preprocessed text at
\* their span, the back-to-front rewrite of encode is exact: when a match is replaced,
\* result[start:end] still equals match.text, and the output is the text with each match
\* span replaced by its replacement and every character outside unchanged and in order
C27_RewriteExact ==
    (pc \in {"loop", "encoded"} /\ RewritePrecondition) =>
        /\ \A i \in DOMAIN matches :
              Slice(result, matches[i].start, matches[i].end) = matches[i].text
        /\ result \in Rewrites(text, 0, SortByStart(done))

\* encode returned after it replaced two matches or more by texts of another length
C27_Witness ==
    /\ pc = "encoded"
    /\ RewritePrecondition
    /\ Len(done) >= 2
    /\ Len(result) # Len(text)

(***************************************************************************)
(* detectors/hybrid.py: warm-up of the shared detector by several threads  *)
(* Each thread runs detect_hybrid(text, language) for the same language in *)
(* a process where nobody called it before. A step is what a thread does   *)
(* between two points where the interpreter may switch threads: the test   *)
(* of the global, the construction and assignment, the read of the global  *)
(* for the return, the test of self._models, spacy.load, the store into    *)
(* self._models. Nothing in the source holds a lock.                       *)
(***************************************************************************)
MaxThreads == 2

ThreadIds == 1..MaxThreads

InitWarmup ==
    /\ mapping = EmptyMapping
    /\ calls = <<>>
    /\ pc = "threads"
    /\ \E language \in DOMAIN LANGUAGE_MODELS \cup {"xx"} : cfg = [language |-> language]
    /\ text = <<>> /\ matches = <<>> /\ result = <<>> /\ done = <<>> /\ decoded = None /\ prev = None
    /\ strategy_obj = None /\ cands = <<>> /\ kept = None /\ file = None
    /\ chunks = <<>> /\ all_entities = None
    /\ _detector = None
    /\ detectors = <<>>
    /\ threads = [t \in ThreadIds |-> [pc |-> "get_hybrid_detector", self |-> 0, nlp |-> None]]

WarmupUnchanged ==
    UNCHANGED <<mapping, pc, cfg, text, matches, result, done, decoded, prev, strategy_obj, cands, kept,
                file, chunks, all_entities>>

\* get_hybrid_detector: `if _detector is None:`
TestDetector(t) ==
    /\ threads[t].pc = "get_hybrid_detector"
    /\ threads' = [threads EXCEPT ![t].pc = IF _detector = None THEN "construct" ELSE "return"]
    /\ UNCHANGED <<calls, _detector, detectors>>
    /\ WarmupUnchanged

\* get_hybrid_detector: `_detector = HybridDetector()`
Construct(t) ==
    /\ threads[t].pc = "construct"
    /\ detectors' = Append(detectors, [_models |-> EmptyDict])
    /\ _detector' = Some(Len(detectors) + 1)
    /\ calls' = Append(calls, [fn |-> "HybridDetector", thread |-> t])
    /\ threads' = [threads EXCEPT ![t].pc = "return"]
    /\ WarmupUnchanged

\* get_hybrid_detector: `return _detector`, and the call of detect on it up to _get_model
ReturnDetector(t) ==
    /\ threads[t].pc = "return"
    /\ threads' = [threads EXCEPT ![t].pc = "_get_model", ![t].self = _detector.val]
    /\ UNCHANGED <<calls, _detector, detectors>>
    /\ WarmupUnchanged

\* _get_model: `if language not in self._models:`
TestModel(t) ==
    /\ threads[t].pc = "_get_model"
    /\ threads' = [threads EXCEPT ![t].pc =
                      IF cfg.language \notin DOMAIN detectors[threads[t].self]._models
                      THEN "spacy.load" ELSE "return_model"]
    /\ UNCHANGED <<calls, _detector, detectors>>
    /\ WarmupUnchanged

\* _get_model: spacy.load(model_name), the right-hand side of the assignment
LoadModel(t) ==
    /\ threads[t].pc = "spacy.load"
    /\ LET model_name == IF cfg.language \in DOMAIN LANGUAGE_MODELS THEN LANGUAGE_MODELS[cfg.language]
                         ELSE "en_core_web_sm"
       IN /\ calls' = Append(calls, [fn |-> "spacy.load", thread |-> t, model |-> model_name])
          /\ threads' = [threads EXCEPT ![t].pc = "store_model", ![t].nlp = Some(model_name)]
    /\ UNCHANGED <<_detector, detectors>>
    /\ WarmupUnchanged

\* _get_model: `self._models[language] = ...`
StoreModel(t) ==
    /\ threads[t].pc = "store_model"
    /\ detectors' = [detectors EXCEPT ![threads[t].self]._models =
                        DictPut(@, cfg.language, threads[t].nlp.val)]
    /\ threads' = [threads EXCEPT ![t].pc = "return_model"]
    /\ UNCHANGED <<calls, _detector>>
    /\ WarmupUnchanged

\* _get_model: `return self._models[language]`; detect goes on with the model
ReturnModel(t) ==
    /\ threads[t].pc = "return_model"
    /\ threads' = [threads EXCEPT ![t].pc = "detecting",
                                  ![t].nlp = Some(detectors[threads[t].self]._models[cfg.language])]
    /\ UNCHANGED <<calls, _detector, detectors>>
    /\ WarmupUnchanged

NextWarmup ==
    \E t \in ThreadIds :
        \/ TestDetector(t)
        \/ Construct(t)
        \/ ReturnDetector(t)
        \/ TestModel(t)
        \/ LoadModel(t)
        \/ StoreModel(t)
        \/ ReturnModel(t)

SpecWarmup == InitWarmup /\ [][NextWarmup]_vars

\* how often the function fn was called
CallCount(fn) == Cardinality({i \in DOMAIN calls : calls[i].fn = fn})

\* C28 (SpecWarmup): when two threads call detect_hybrid for the same language concurrently
\* for the first time, exactly one HybridDetector instance is created and the language
\* model is loaded exactly once
C28_WarmupOnce ==
    /\ CallCount("HybridDetector") <= 1
    /\ CallCount("spacy.load") <= 1
    /\ (\A t \in ThreadIds : threads[t].pc = "detecting") =>
          CallCount("HybridDetector") = 1 /\ CallCount("spacy.load") = 1

\* the first call that returned the placeholder: the call that created its entry
CreatingCall(placeholder) ==
    calls[CHOOSE i \in DOMAIN calls :
              calls[i].ret = placeholder /\ \A j \in 1..(i - 1) : calls[j].ret # placeholder]

\* what holds of a Mapping between two calls
MappingWellFormed ==
    /\ \A i \in DOMAIN mapping.entries :
          /\ mapping.entries[i].canonical \in mapping.entries[i].variations
          /\ mapping.entries[i].occurrences >= 1
          /\ \E c \in DOMAIN calls : calls[c].ret = mapping.entries[i].placeholder
          /\ mapping.entries[i].canonical = CreatingCall(mapping.entries[i].placeholder).value
    /\ \A k \in DOMAIN mapping.v2p : EntryIndex(mapping.entries, mapping.v2p[k]) # 0

\* what a call leaves of the entries it found: each is still there, under its placeholder,
\* with the canonical value it had and no fewer occurrences
EntriesOnlyGrow ==
    \A i \in DOMAIN mapping.entries :
        \E j \in DOMAIN mapping'.entries :
            /\ mapping'.entries[j].placeholder = mapping.entries[i].placeholder
            /\ mapping'.entries[j].canonical = mapping.entries[i].canonical
            /\ mapping'.entries[j].occurrences >= mapping.entries[i].occurrences

\* C29 (SpecMapping): after any sequence of get_or_create_placeholder calls on one Mapping
\* no entry is ever removed, the canonical value of an entry is the raw value of the call
\* that created it and never changes, it is one of the variations, occurrences is at least 1
\* and never decreases, and every value of the reverse index is a key of entries
C29_MappingInvariants == []MappingWellFormed /\ [][EntriesOnlyGrow]_vars

\* two entries, one of them met again under another spelling
C29_Witness ==
    /\ Len(mapping.entries) >= 2
    /\ \E i \in DOMAIN mapping.entries :
          mapping.entries[i].occurrences >= 2 /\ Cardinality(mapping.entries[i].variations) >= 2

\* an encode call on a Mapping that held nothing when the call began
FreshRun == pc \in {"loop", "encoded"} /\ Len(calls) = Len(done)

\* the calls on the Mapping are the matches in the order of the loop, greatest start first
RegisteredFromEnd ==
    \A k \in DOMAIN done :
        /\ calls[k].value = done[k].text /\ calls[k].category = done[k].category
        /\ (k > 1 => done[k - 1].start >= done[k].start)

\* of the matches of a category the one with the greatest start offset gets number 001
LastOfCategoryGetsOne ==
    \A k \in DOMAIN done :
        (\A j \in 1..(k - 1) : done[j].category # done[k].category)
            => calls[k].ret = FormatPlaceholder(done[k].category, 1)

\* the canonical value of an entry is the text of the last of its matches in the text
CanonicalIsLastOccurrence ==
    \A i \in DOMAIN mapping.entries :
        \E k \in DOMAIN done :
            /\ calls[k].ret = mapping.entries[i].placeholder
            /\ done[k].text = mapping.entries[i].canonical
            /\ \A j \in DOMAIN done : calls[j].ret = calls[k].ret => done[j].start <= done[k].start

\* C30 (Spec): encode registers the matches with the Mapping in descending start-offset
\* order: on a fresh Mapping the numbers of a category are assigned from the end of the
\* document toward its start, the match of the category with the greatest start offset
\* gets 001, and the canonical value of each entry is the surface form of its last
\* occurrence in the document
C30_NumberedFromEnd ==
    FreshRun => RegisteredFromEnd /\ LastOfCategoryGetsOne /\ CanonicalIsLastOccurrence
====
